---- MODULE Spec2Model ----
(***************************************************************************)
(* Event booking backend: the event create / update / status workflow, the *)
(* room and variation availability checks, the cost computation and the    *)
(* invoice rows written with an event.                                     *)
(*                                                                         *)
(* Time is counted in whole hours from an arbitrary origin; money in whole *)
(* units.  Decimal columns are modelled by their numeric value.            *)
(***************************************************************************)
EXTENDS Integers, Sequences, FiniteSets, TLC

\* JavaScript null / undefined of an optional numeric field or column.
Null == -1

\* ---------------------------------------------------------------- bounds
MaxEvents == 2
MaxTime == 2
MaxEventServices == 2
MaxRequests == 2
MaxWorkflowEvents == 1
MaxPayments == 2
MaxReviews == 1

\* ------------------------------------------------------------ master data
\* Rows of the rooms, services, variations and accounts tables.  They are
\* not written by any operation modelled here.
Rooms ==
  { [room_id |-> 1, is_active |-> TRUE, status |-> "AVAILABLE", base_price |-> 10, hourly_rate |-> 2],
    [room_id |-> 2, is_active |-> TRUE, status |-> "AVAILABLE", base_price |-> 0, hourly_rate |-> 0],
    [room_id |-> 3, is_active |-> TRUE, status |-> "MAINTENANCE", base_price |-> 10, hourly_rate |-> 2] }

Services ==
  { [service_id |-> 1, is_active |-> TRUE],
    [service_id |-> 2, is_active |-> FALSE],
    [service_id |-> 3, is_active |-> TRUE] }

Variations ==
  { [variation_id |-> 1, service_id |-> 1, base_price |-> 5, is_active |-> TRUE],
    [variation_id |-> 2, service_id |-> 1, base_price |-> 3, is_active |-> TRUE],
    [variation_id |-> 3, service_id |-> 2, base_price |-> 4, is_active |-> TRUE] }

Accounts == { 1, 2 }

\* The EventStatus enum of the database.
DbEventStatuses ==
  { "PENDING", "CONFIRMED", "IN_PROGRESS", "COMPLETED", "CANCELLED", "RESCHEDULED" }

\* The statuses validateEventData accepts.
EVENT_STATUSES == DbEventStatuses \cup { "ACCEPTED" }

Times == 0 .. MaxTime

VARIABLES
  events,          \* set of rows of the events table
  eventServices,   \* sequence of rows of the event_services table
  invoices,        \* set of rows of the invoices table
  invoiceDetails,  \* sequence of rows of the invoice_details table
  nextEventId,     \* next value of the events_event_id sequence
  nextInvoiceId,   \* next value of the invoices_invoice_id sequence
  payments,        \* set of rows of the payments table
  reviews,         \* set of rows of the reviews table
  nextPaymentId,   \* next value of the payments_payment_id sequence
  nextReviewId,    \* next value of the reviews_review_id sequence
  last,            \* the response to the last completed request
  reqs,            \* in-flight requests (concurrent specification)
  clock,           \* Date.now(), in milliseconds
  invoiceNumbers,  \* invoice_number column: rows [invoice_id, invoice_number]
  attempts         \* the Map of the rate-limited middleware, by client IP

db ==
  << events, eventServices, invoices, invoiceDetails, nextEventId, nextInvoiceId,
     payments, reviews, nextPaymentId, nextReviewId, clock, invoiceNumbers, attempts >>
vars ==
  << events, eventServices, invoices, invoiceDetails, nextEventId, nextInvoiceId,
     payments, reviews, nextPaymentId, nextReviewId, last, reqs, clock, invoiceNumbers,
     attempts >>

CurDb ==
  [ events |-> events, eventServices |-> eventServices, invoices |-> invoices,
    invoiceDetails |-> invoiceDetails, nextEventId |-> nextEventId,
    nextInvoiceId |-> nextInvoiceId, payments |-> payments, reviews |-> reviews,
    nextPaymentId |-> nextPaymentId, nextReviewId |-> nextReviewId ]

\* The tables take the values the handler computed.
CommitTables(D) ==
  /\ events' = D.events
  /\ eventServices' = D.eventServices
  /\ invoices' = D.invoices
  /\ invoiceDetails' = D.invoiceDetails
  /\ nextEventId' = D.nextEventId
  /\ nextInvoiceId' = D.nextInvoiceId
  /\ payments' = D.payments
  /\ reviews' = D.reviews
  /\ nextPaymentId' = D.nextPaymentId
  /\ nextReviewId' = D.nextReviewId

\* A transaction's commit of a request handled in a millisecond of its own:
\* its invoice number INV-<Date.now()> is new and is not tracked.
Commit(D) ==
  /\ CommitTables(D)
  /\ UNCHANGED << clock, invoiceNumbers, attempts >>

\* ------------------------------------------------------------- helpers
\* JavaScript truthiness of an optional number: null, undefined and 0 are falsy.
Truthy(x) == x # Null /\ x # 0

\* An optional instant (an ISO string or a Date in the code) is given.
Given(x) == x # Null

\* A string that new Date() cannot parse: the Date it gives is an Invalid Date.
InvalidDate == -3

NoEvent == [ event_id |-> Null ]

EventById(evs, id) ==
  IF \E e \in evs : e.event_id = id
    THEN CHOOSE e \in evs : e.event_id = id
    ELSE NoEvent

RoomById(id) ==
  IF \E r \in Rooms : r.room_id = id
    THEN CHOOSE r \in Rooms : r.room_id = id
    ELSE [ room_id |-> Null ]

ServiceById(id) ==
  IF \E s \in Services : s.service_id = id
    THEN CHOOSE s \in Services : s.service_id = id
    ELSE [ service_id |-> Null ]

VariationById(id) ==
  IF \E v \in Variations : v.variation_id = id
    THEN CHOOSE v \in Variations : v.variation_id = id
    ELSE [ variation_id |-> Null ]

InvoiceOfEvent(invs, event_id) ==
  IF \E i \in invs : i.event_id = event_id
    THEN CHOOSE i \in invs : i.event_id = event_id
    ELSE [ invoice_id |-> Null ]

RECURSIVE SumSubtotals(_)
SumSubtotals(rows) ==
  IF rows = << >> THEN 0 ELSE Head(rows).subtotal + SumSubtotals(Tail(rows))

\* --------------------------------------------------- availability checks
\* The where-clause of the conflict query: start_time < end AND end_time > start.
\* A NULL column never satisfies a comparison.
IntervalsIntersectLoose(existingStart, existingEnd, start, end) ==
  /\ existingStart # Null
  /\ existingEnd # Null
  /\ existingStart <= end
  /\ existingEnd >= start

IntervalsIntersect(existingStart, existingEnd, start, end) ==
  /\ existingStart # Null
  /\ existingEnd # Null
  /\ existingStart < end
  /\ existingEnd > start

ConflictingEvents(evs, room_id, start, end) ==
  { e \in evs :
      /\ e.room_id = room_id
      /\ e.status \in { "CONFIRMED", "IN_PROGRESS" }
      /\ IntervalsIntersect(e.start_time, e.end_time, start, end) }

\* checkRoomAvailability(room_id, start_time, end_time, duration_hours): the
\* function takes four parameters; an exclude id or a transaction client
\* passed by a caller is dropped.  hasData is FALSE where data is null.
checkRoomAvailability(evs, room_id, start_time, end_time, duration_hours) ==
  IF ~Given(start_time) \/ ~Given(end_time)
    THEN [ isValid |-> FALSE, hasData |-> FALSE, isAvailable |-> FALSE ]
    ELSE IF start_time = InvalidDate \/ end_time = InvalidDate
      \* the query rejects an Invalid Date; the catch returns the error
      THEN [ isValid |-> FALSE, hasData |-> FALSE, isAvailable |-> FALSE ]
    ELSE [ isValid |-> TRUE, hasData |-> TRUE,
           isAvailable |-> ConflictingEvents(evs, room_id, start_time, end_time) = { } ]

\* checkVariationAvailability(variation_id, scheduled_time, duration_hours):
\* the overlap query is commented out in the source; what remains is the
\* argument check and the variation lookup.
checkVariationAvailability(variation_id, scheduled_time, duration_hours) ==
  IF ~Truthy(variation_id) \/ ~Given(scheduled_time) \/ ~Truthy(duration_hours)
    THEN [ isValid |-> FALSE, error |-> "Variation ID, scheduled time, and duration are required" ]
    ELSE IF VariationById(variation_id).variation_id = Null
            \/ ~VariationById(variation_id).is_active
      THEN [ isValid |-> FALSE, error |-> "Variation not found or inactive" ]
      ELSE [ isValid |-> TRUE, error |-> "" ]

\* ------------------------------------------------------------ validation
\* validateEventData: the date range, the cost and the status checks.  The
\* event name of every modelled request is valid.
validateEventData(d) ==
  ( IF Given(d.start_time) /\ Given(d.end_time) /\ d.start_time > d.end_time
      THEN { "Start date must be before end date" } ELSE { } )
  \cup
  ( IF Truthy(d.estimated_cost) /\ d.estimated_cost < 0
      THEN { "Estimated cost out of range" } ELSE { } )
  \cup
  ( IF d.status # "UNSET" /\ d.status \notin EVENT_STATUSES
      THEN { "Invalid event status" } ELSE { } )

\* ------------------------------------------------------------ createEvent
\* durationHours = (end - start) / 3600000 when both instants are given.
DurationHours(start_time, end_time) ==
  IF Given(start_time) /\ Given(end_time) THEN end_time - start_time ELSE Null

\* The initial cost of innerCreateEvent: caller base, room base price, and
\* hourly rate times duration when both are present.
calculateEstimatedCost(estimated_cost, room, durationHours) ==
  ( IF Truthy(estimated_cost) THEN estimated_cost ELSE 0 )
  + ( IF room.base_price # Null THEN room.base_price ELSE 0 )
  + ( IF Truthy(durationHours) /\ room.hourly_rate # Null
        THEN room.hourly_rate * durationHours ELSE 0 )

NoData ==
  [ event_id |-> Null, estimated_cost |-> Null, scheduled_time |-> Null,
    duration_hours |-> Null ]

\* The validation and reference checks of innerCreateEvent, up to and
\* including the room availability query: the errors returned, { } when the
\* request may be written.
innerCreateEventErrors(evs, d) ==
  LET durationHours == DurationHours(d.start_time, d.end_time)
      room == RoomById(d.room_id)
      availability ==
        checkRoomAvailability(evs, d.room_id, d.start_time, d.end_time, durationHours)
  IN  IF validateEventData(d) # { } THEN validateEventData(d)
      ELSE IF ~Truthy(d.room_id) THEN { "Room ID is required" }
      ELSE IF Given(d.start_time) /\ Given(d.end_time) /\ durationHours <= 0
        THEN { "End time must be after start time" }
      ELSE IF Truthy(d.account_id) /\ d.account_id \notin Accounts
        THEN { "Account not found" }
      ELSE IF room.room_id = Null \/ ~room.is_active \/ room.status # "AVAILABLE"
        THEN { "Room not found, inactive, or unavailable" }
      ELSE IF /\ Given(d.start_time)
              /\ Truthy(durationHours)
              /\ ( ~availability.isValid \/ ~availability.isAvailable )
        THEN { IF availability.hasData THEN "Conflict" ELSE "Room is not available" }
      ELSE { }

\* The writes of innerCreateEvent inside its transaction: the event row,
\* and when the cost is positive the invoice and its ROOM detail.  A write
\* that throws rolls all of them back and handleError returns the message.
innerCreateEventWrites(D, d) ==
  LET durationHours == DurationHours(d.start_time, d.end_time)
      room == RoomById(d.room_id)
      cost == calculateEstimatedCost(d.estimated_cost, room, durationHours)
      status == IF d.status = "UNSET" THEN "PENDING" ELSE d.status
      newEvent ==
        [ event_id |-> D.nextEventId, status |-> status, room_id |-> d.room_id,
          start_time |-> d.start_time, end_time |-> d.end_time,
          estimated_cost |-> cost,
          account_id |-> IF Truthy(d.account_id) THEN d.account_id ELSE Null ]
      invoice ==
        [ invoice_id |-> D.nextInvoiceId, event_id |-> newEvent.event_id,
          total_amount |-> cost, status |-> "PENDING",
          account_id |-> newEvent.account_id ]
      detail ==
        [ invoice_id |-> invoice.invoice_id, item_type |-> "ROOM", quantity |-> 1,
          unit_price |-> room.base_price, subtotal |-> room.base_price,
          service_id |-> Null, variation_id |-> Null ]
      threw ==
        \/ status \notin DbEventStatuses
        \/ d.fault = "event"
        \/ cost > 0 /\ d.fault \in { "invoice", "roomDetail" }
      data ==
        [ event_id |-> newEvent.event_id, estimated_cost |-> cost,
          scheduled_time |-> d.start_time, duration_hours |-> durationHours ]
  IN  IF threw
        THEN [ isValid |-> FALSE, errors |-> { "database error" }, db |-> D, data |-> NoData ]
        ELSE [ isValid |-> TRUE, errors |-> { },
               db |-> [ D EXCEPT
                        !.events = @ \cup { newEvent },
                        !.nextEventId = @ + 1,
                        !.invoices = IF cost > 0 THEN @ \cup { invoice } ELSE @,
                        !.nextInvoiceId = IF cost > 0 THEN @ + 1 ELSE @,
                        !.invoiceDetails = IF cost > 0 THEN Append(@, detail) ELSE @ ],
               data |-> data ]

\* createEvent / innerCreateEvent as one transaction.
createEvent(D, d) ==
  IF innerCreateEventErrors(D.events, d) # { }
    THEN [ isValid |-> FALSE, errors |-> innerCreateEventErrors(D.events, d),
           db |-> D, data |-> NoData ]
    ELSE innerCreateEventWrites(D, d)

\* ------------------------------------------------- createEventController
\* The loop of the controller's own transaction over service_variants: per
\* pair the service and variation checks, the availability check, the
\* EventService insert and the SERVICE invoice detail insert.  Returns the
\* tables after the loop, or threw = TRUE at the first exception.
RECURSIVE serviceVariantsLoop(_, _, _, _)
serviceVariantsLoop(D, newEvent, variants, fault) ==
  IF variants = << >> THEN [ threw |-> FALSE, db |-> D ]
  ELSE
    LET service_id == Head(variants).service_id
        variant_id == Head(variants).variant_id
        dbService == ServiceById(service_id)
        variation == VariationById(variant_id)
        invoice == InvoiceOfEvent(D.invoices, newEvent.event_id)
        eventService ==
          [ event_id |-> newEvent.event_id, service_id |-> service_id,
            variation_id |-> variant_id, quantity |-> 1, custom_price |-> Null,
            status |-> "CONFIRMED", scheduled_time |-> newEvent.scheduled_time,
            duration_hours |-> newEvent.duration_hours ]
        detail ==
          [ invoice_id |-> invoice.invoice_id, item_type |-> "SERVICE", quantity |-> 1,
            unit_price |-> variation.base_price, subtotal |-> variation.base_price,
            service_id |-> service_id, variation_id |-> variant_id ]
    IN  IF dbService.service_id = Null \/ ~dbService.is_active
          THEN [ threw |-> TRUE, db |-> D ]
        ELSE IF \/ variation.variation_id = Null
                \/ ~variation.is_active
                \/ variation.service_id # service_id
          THEN [ threw |-> TRUE, db |-> D ]
        ELSE IF /\ Given(newEvent.scheduled_time)
                /\ Truthy(newEvent.duration_hours)
                /\ ~checkVariationAvailability(variant_id, newEvent.scheduled_time,
                                               newEvent.duration_hours).isValid
          THEN [ threw |-> TRUE, db |-> D ]
        ELSE IF fault = "eventService" THEN [ threw |-> TRUE, db |-> D ]
        ELSE IF invoice.invoice_id = Null \/ fault = "serviceDetail"
          THEN [ threw |-> TRUE, db |-> D ]
        ELSE serviceVariantsLoop(
               [ D EXCEPT !.eventServices = Append(@, eventService),
                          !.invoiceDetails = Append(@, detail) ],
               newEvent, Tail(variants), fault)

\* The SERVICE details of the invoice of an event (the aggregate's filter).
ServiceDetailsOfEvent(D, event_id) ==
  SelectSeq(D.invoiceDetails,
            LAMBDA row : /\ row.item_type = "SERVICE"
                         /\ row.invoice_id = InvoiceOfEvent(D.invoices, event_id).invoice_id)

addServiceCostDropped(estimated_cost, totalServiceCost) == estimated_cost - totalServiceCost

\* Number(newEvent.estimated_cost) + Number(totalServiceCost._sum.subtotal || 0).
addServiceCost(estimated_cost, totalServiceCost) == estimated_cost + totalServiceCost

\* The cost of the booked items as the earlier copy of createEvent sums it:
\* Number(custom_price || variation?.base_price || 0) * Number(quantity || 1).
RECURSIVE eventServicesCost(_)
eventServicesCost(event_services) ==
  IF event_services = << >> THEN 0
  ELSE LET service == Head(event_services)
           variation == VariationById(service.variation_id)
           price ==
             IF Truthy(service.custom_price) THEN service.custom_price
             ELSE IF variation.variation_id # Null /\ Truthy(variation.base_price)
               THEN variation.base_price
             ELSE 0
           quantity == IF Truthy(service.quantity) THEN service.quantity ELSE 1
       IN  price * quantity + eventServicesCost(Tail(event_services))

\* The controller's transaction: the loop, then the event's estimated cost
\* raised by the sum of the SERVICE subtotals.  Any exception rolls this
\* transaction back; the tables are then as createEvent committed them.
serviceVariantsTransaction(D, newEvent, variants, fault) ==
  LET loop == serviceVariantsLoop(D, newEvent, variants, fault)
      totalServiceCost == SumSubtotals(ServiceDetailsOfEvent(loop.db, newEvent.event_id))
      updated ==
        { IF e.event_id = newEvent.event_id
            THEN [ e EXCEPT !.estimated_cost =
                       addServiceCost(newEvent.estimated_cost, totalServiceCost) ]
            ELSE e : e \in loop.db.events }
  IN  IF loop.threw \/ fault = "costUpdate"
        THEN [ threw |-> TRUE, db |-> D ]
        ELSE [ threw |-> FALSE, db |-> [ loop.db EXCEPT !.events = updated ] ]

\* createEventController: createEvent, then the service transaction when the
\* request carries service_variants.  400 with the error list when createEvent
\* is invalid, 500 'Internal server error' when the service transaction
\* throws, 201 otherwise.  event_id is the row this request inserted.
createEventController(D, d) ==
  LET result == createEvent(D, d)
      tx == serviceVariantsTransaction(result.db, result.data, d.service_variants, d.fault)
  IN  IF ~result.isValid
        THEN [ db |-> result.db,
               resp |-> [ op |-> "createEvent", code |-> 400, errors |-> result.errors,
                          event_id |-> Null ] ]
      ELSE IF d.service_variants = << >>
        THEN [ db |-> result.db,
               resp |-> [ op |-> "createEvent", code |-> 201, errors |-> { },
                          event_id |-> result.data.event_id ] ]
      ELSE IF tx.threw
        THEN [ db |-> result.db,
               resp |-> [ op |-> "createEvent", code |-> 500, errors |-> { },
                          event_id |-> result.data.event_id ] ]
      ELSE [ db |-> tx.db,
             resp |-> [ op |-> "createEvent", code |-> 201, errors |-> { },
                        event_id |-> result.data.event_id ] ]

\* ------------------------------------------------------------ updateEvent
\* Outcome of one of the two room availability checks of updateEvent.  The
\* call passes null for end_time, and the error branch reads
\* availability.data.reason without a guard: with data null that read throws.
UpdateRoomCheck(evs, room_id, start_time, durationHours) ==
  LET availability == checkRoomAvailability(evs, room_id, start_time, Null, durationHours)
  IN  IF ~( Given(start_time) /\ Truthy(durationHours) ) THEN "pass"
      ELSE IF availability.isValid /\ availability.isAvailable THEN "pass"
      ELSE IF availability.hasData THEN "Conflict"
      ELSE "throw"

\* updateEvent(eventId, updateData) for a staff or admin caller.  Costs
\* read back from decimal columns are compared and added by numeric value.
updateEvent(D, eventId, u) ==
  LET existingEvent == EventById(D.events, eventId)
      scheduledTime ==
        IF Given(u.start_time) THEN u.start_time ELSE existingEvent.start_time
      durationHours ==
        IF Given(u.start_time) /\ Given(u.end_time) THEN u.end_time - u.start_time
        ELSE IF Given(existingEvent.start_time) /\ Given(existingEvent.end_time)
          THEN existingEvent.end_time - existingEvent.start_time
        ELSE Null
      roomChanges == Truthy(u.room_id) /\ u.room_id # existingEvent.room_id
      sameRoomTimes ==
        /\ ~roomChanges
        /\ ( Given(u.start_time) \/ Given(u.end_time) )
        /\ Truthy(existingEvent.room_id)
      checkedRoom ==
        RoomById(IF roomChanges THEN u.room_id ELSE existingEvent.room_id)
      roomCheck ==
        UpdateRoomCheck(D.events, checkedRoom.room_id, u.start_time, durationHours)
      baseCost ==
        IF Truthy(u.estimated_cost) THEN u.estimated_cost
        ELSE IF Truthy(existingEvent.estimated_cost) THEN existingEvent.estimated_cost
        ELSE 0
      roomCost ==
        ( IF checkedRoom.base_price # Null THEN checkedRoom.base_price ELSE 0 )
        + ( IF Truthy(durationHours) /\ checkedRoom.hourly_rate # Null
              THEN checkedRoom.hourly_rate * durationHours ELSE 0 )
      booksVariation == Truthy(u.service_id) /\ Truthy(u.variation_id)
      dbService == ServiceById(u.service_id)
      variation == VariationById(u.variation_id)
      availabilityCheck ==
        checkVariationAvailability(u.variation_id, scheduledTime, durationHours)
      \* the variation is selected without base_price: variation.base_price || 0 is 0
      variationBasePrice == 0
      calculatedEstimatedCost ==
        ( IF roomChanges THEN roomCost ELSE baseCost )
        + ( IF booksVariation THEN variationBasePrice ELSE 0 )
      eventService ==
        [ event_id |-> eventId, service_id |-> u.service_id,
          variation_id |-> u.variation_id, quantity |-> 1, custom_price |-> Null,
          status |-> "CONFIRMED", scheduled_time |-> scheduledTime,
          duration_hours |-> durationHours ]
      servicesAfter ==
        IF booksVariation
          THEN Append(SelectSeq(D.eventServices, LAMBDA row : row.event_id # eventId),
                      eventService)
          ELSE D.eventServices
      updatedEvent ==
        [ existingEvent EXCEPT
            !.start_time = IF Given(u.start_time) THEN scheduledTime ELSE @,
            !.end_time = IF Given(u.end_time) THEN u.end_time ELSE @,
            !.estimated_cost = calculatedEstimatedCost,
            !.status = IF u.status # "UNSET" THEN u.status ELSE @,
            !.room_id = IF Truthy(u.room_id) THEN u.room_id ELSE @ ]
      existingInvoice == InvoiceOfEvent(D.invoices, eventId)
      adjustsInvoice ==
        /\ calculatedEstimatedCost # existingEvent.estimated_cost
        /\ existingInvoice.invoice_id # Null
      detailRoom ==
        RoomById(IF Truthy(u.room_id) THEN u.room_id ELSE existingEvent.room_id)
      roomDetail ==
        [ invoice_id |-> existingInvoice.invoice_id, item_type |-> "ROOM", quantity |-> 1,
          unit_price |-> detailRoom.base_price, subtotal |-> detailRoom.base_price,
          service_id |-> Null, variation_id |-> Null ]
      serviceDetail ==
        [ invoice_id |-> existingInvoice.invoice_id, item_type |-> "SERVICE",
          quantity |-> 1, unit_price |-> variation.base_price,
          subtotal |-> variation.base_price, service_id |-> u.service_id,
          variation_id |-> u.variation_id ]
      keptDetails ==
        SelectSeq(D.invoiceDetails,
                  LAMBDA row : row.invoice_id # existingInvoice.invoice_id)
      detailsAfter ==
        IF ~adjustsInvoice THEN D.invoiceDetails
        ELSE ( IF Truthy(u.room_id) \/ Truthy(existingEvent.room_id)
                 THEN Append(keptDetails, roomDetail) ELSE keptDetails )
             \o ( IF booksVariation THEN << serviceDetail >> ELSE << >> )
      invoicesAfter ==
        IF ~adjustsInvoice THEN D.invoices
        ELSE { IF i.invoice_id = existingInvoice.invoice_id
                 THEN [ i EXCEPT !.total_amount = calculatedEstimatedCost ]
                 ELSE i : i \in D.invoices }
      threw ==
        \/ ( roomChanges \/ sameRoomTimes ) /\ roomCheck = "throw"
        \/ u.status # "UNSET" /\ u.status \notin DbEventStatuses
        \/ u.fault = "eventService" /\ booksVariation
        \/ u.fault = "event"
        \/ u.fault = "serviceDetail" /\ adjustsInvoice /\ booksVariation
      failed(errors) == [ isValid |-> FALSE, errors |-> errors, db |-> D ]
  IN  IF existingEvent.event_id = Null THEN failed({ "Event not found" })
      ELSE IF validateEventData(u) # { } THEN failed(validateEventData(u))
      ELSE IF Given(u.start_time) /\ Given(u.end_time) /\ durationHours <= 0
        THEN failed({ "End time must be after start time" })
      ELSE IF Truthy(u.account_id) /\ u.account_id \notin Accounts
        THEN failed({ "Account not found" })
      ELSE IF /\ roomChanges
              /\ ( \/ checkedRoom.room_id = Null
                   \/ ~checkedRoom.is_active
                   \/ checkedRoom.status # "AVAILABLE" )
        THEN failed({ "Room not found, inactive, or unavailable" })
      ELSE IF /\ sameRoomTimes
              /\ ( \/ checkedRoom.room_id = Null
                   \/ ~checkedRoom.is_active
                   \/ checkedRoom.status # "AVAILABLE" )
        THEN failed({ "Current room is not available" })
      ELSE IF ( roomChanges \/ sameRoomTimes ) /\ roomCheck = "Conflict"
        THEN failed({ "Conflict" })
      ELSE IF ( roomChanges \/ sameRoomTimes ) /\ roomCheck = "throw"
        THEN failed({ "Cannot read properties of null" })
      ELSE IF booksVariation /\ ( dbService.service_id = Null \/ ~dbService.is_active )
        THEN failed({ "Service not found or inactive" })
      ELSE IF /\ booksVariation
              /\ ( \/ variation.variation_id = Null
                   \/ ~variation.is_active
                   \/ variation.service_id # u.service_id )
        THEN failed({ "Variation not found, inactive, or does not belong to the specified service" })
      ELSE IF /\ booksVariation
              /\ Given(scheduledTime)
              /\ Truthy(durationHours)
              /\ ~availabilityCheck.isValid
        THEN failed({ availabilityCheck.error })
      ELSE IF threw THEN failed({ "database error" })
      ELSE [ isValid |-> TRUE, errors |-> { },
             db |-> [ D EXCEPT
                      !.events = ( @ \ { existingEvent } ) \cup { updatedEvent },
                      !.eventServices = servicesAfter,
                      !.invoices = invoicesAfter,
                      !.invoiceDetails = detailsAfter ] ]

\* updateEventController: 400 with the error list, or 200.
updateEventController(D, eventId, u) ==
  LET result == updateEvent(D, eventId, u)
  IN  [ db |-> result.db,
        resp |-> [ op |-> "updateEvent",
                   code |-> IF result.isValid THEN 200 ELSE 400,
                   errors |-> result.errors,
                   event_id |-> eventId ] ]

\* ------------------------------------------------------- status changes
\* toggleEventStatus / toggleEventStatusController: PENDING becomes
\* CONFIRMED, every other status becomes PENDING.
toggleEventStatus(D, eventId) ==
  LET event == EventById(D.events, eventId)
      newStatus == IF event.status = "PENDING" THEN "CONFIRMED" ELSE "PENDING"
  IN  IF event.event_id = Null
        THEN [ db |-> D,
               resp |-> [ op |-> "toggleEventStatus", code |-> 404,
                          errors |-> { "Event not found" }, event_id |-> eventId ] ]
        ELSE [ db |-> [ D EXCEPT !.events =
                          ( @ \ { event } ) \cup { [ event EXCEPT !.status = newStatus ] } ],
               resp |-> [ op |-> "toggleEventStatus", code |-> 200, errors |-> { },
                          event_id |-> eventId ] ]

allowedStatusesWithPending ==
  { "PENDING", "CONFIRMED", "IN_PROGRESS", "CANCELLED", "COMPLETED" }

allowedStatuses == { "CONFIRMED", "IN_PROGRESS", "CANCELLED", "COMPLETED" }

\* updateEventStatusController (PATCH /events/:id/status).
updateEventStatusController(D, eventId, status) ==
  LET event == EventById(D.events, eventId)
      reply(code, msg) ==
        [ op |-> "updateEventStatus", code |-> code, errors |-> msg, event_id |-> eventId ]
  IN  IF status = "UNSET"
        THEN [ db |-> D, resp |-> reply(400, { "Status is required" }) ]
      ELSE IF status \notin allowedStatuses
        THEN [ db |-> D, resp |-> reply(400, { "Invalid status" }) ]
      ELSE IF event.event_id = Null
        THEN [ db |-> D, resp |-> reply(404, { "Event not found" }) ]
      ELSE IF event.status # "CONFIRMED"
        THEN [ db |-> D,
               resp |-> reply(400, { "Event status can only be updated from CONFIRMED" }) ]
      ELSE [ db |-> [ D EXCEPT !.events =
                        ( @ \ { event } ) \cup { [ event EXCEPT !.status = status ] } ],
             resp |-> reply(200, { }) ]

\* ---------------------------------------------------------- event services
\* validateEventServiceData: quantity, service id, optional ids, status.
validateEventServiceData(d) ==
  ( IF d.quantity # Null /\ d.quantity < 1 THEN { "Quantity out of range" } ELSE { } )
  \cup ( IF d.service_id = Null \/ d.service_id <= 0 THEN { "Invalid service ID" } ELSE { } )
  \cup ( IF Truthy(d.event_id) /\ d.event_id <= 0 THEN { "Invalid event ID" } ELSE { } )
  \cup ( IF Truthy(d.variation_id) /\ d.variation_id <= 0
           THEN { "Invalid variation ID" } ELSE { } )
  \cup ( IF d.status # "UNSET" /\ d.status \notin { "CONFIRMED", "PENDING", "CANCELLED" }
           THEN { "Invalid event service status" } ELSE { } )

\* The validation and reference checks of createEventService, up to and
\* including the variation availability check: the errors returned, { } when
\* the row may be inserted.
createEventServiceErrors(evs, d) ==
  LET event == EventById(evs, d.event_id)
      service == ServiceById(d.service_id)
      variation == VariationById(d.variation_id)
      availabilityCheck ==
        checkVariationAvailability(d.variation_id, d.scheduled_time, d.duration_hours)
  IN  IF validateEventServiceData(d) # { } THEN validateEventServiceData(d)
      ELSE IF event.event_id = Null \/ event.status = "CANCELLED"
        THEN { "Event not found or cancelled" }
      ELSE IF service.service_id = Null \/ ~service.is_active
        THEN { "Service not found or inactive" }
      ELSE IF /\ Truthy(d.variation_id)
              /\ ( \/ variation.variation_id = Null
                   \/ ~variation.is_active
                   \/ variation.service_id # d.service_id )
        THEN { "Variation not found, inactive, or does not belong to the specified service" }
      ELSE IF /\ Truthy(d.variation_id)
              /\ Given(d.scheduled_time)
              /\ Truthy(d.duration_hours)
              /\ ~availabilityCheck.isValid
        THEN { availabilityCheck.error }
      ELSE { }

\* The insert of createEventService (no transaction surrounds it and the
\* checks) and the controller's reply: 201, or 400 with the error list.
createEventServiceInsert(D, d) ==
  LET newEventService ==
        [ event_id |-> d.event_id, service_id |-> d.service_id,
          variation_id |-> IF Truthy(d.variation_id) THEN d.variation_id ELSE Null,
          quantity |-> IF d.quantity = Null THEN 1 ELSE d.quantity,
          custom_price |-> IF Truthy(d.custom_price) THEN d.custom_price ELSE Null,
          status |-> IF d.status = "UNSET" THEN "CONFIRMED" ELSE d.status,
          scheduled_time |-> d.scheduled_time,
          duration_hours |-> IF Truthy(d.duration_hours) THEN d.duration_hours ELSE Null ]
  IN  IF d.fault = "eventService"
        THEN [ db |-> D,
               resp |-> [ op |-> "createEventService", code |-> 400,
                          errors |-> { "database error" }, event_id |-> d.event_id ] ]
        ELSE [ db |-> [ D EXCEPT !.eventServices = Append(@, newEventService) ],
               resp |-> [ op |-> "createEventService", code |-> 201, errors |-> { },
                          event_id |-> d.event_id ] ]

\* createEventService / createEventServiceController (POST /event-services).
createEventService(D, d) ==
  IF createEventServiceErrors(D.events, d) # { }
    THEN [ db |-> D,
           resp |-> [ op |-> "createEventService", code |-> 400,
                      errors |-> createEventServiceErrors(D.events, d),
                      event_id |-> d.event_id ] ]
    ELSE createEventServiceInsert(D, d)

\* updateEventService / updateEventServiceController (PUT /event-services/:id).
\* The row's position in the table stands for its event_service_id.  A field
\* of Null (UNSET for the status) is a field the request does not carry.
updateEventService(D, eventServiceId, u) ==
  LET found == eventServiceId \in 1 .. Len(D.eventServices)
      existingEventService == D.eventServices[eventServiceId]
      event == EventById(D.events, u.event_id)
      service == ServiceById(u.service_id)
      variation == VariationById(u.variation_id)
      variationChanges ==
        Truthy(u.variation_id) /\ u.variation_id # existingEventService.variation_id
      effectiveScheduledTime ==
        IF Given(u.scheduled_time) THEN u.scheduled_time
        ELSE existingEventService.scheduled_time
      effectiveDurationHours ==
        IF Truthy(u.duration_hours) THEN u.duration_hours
        ELSE existingEventService.duration_hours
      updatedEventService ==
        [ existingEventService EXCEPT
            !.event_id = IF u.event_id # Null THEN u.event_id ELSE @,
            !.service_id = IF u.service_id # Null THEN u.service_id ELSE @,
            !.variation_id = IF u.variation_id # Null THEN u.variation_id ELSE @,
            !.quantity = IF u.quantity # Null THEN u.quantity ELSE @,
            !.custom_price = IF Truthy(u.custom_price) THEN u.custom_price ELSE @,
            !.status = IF u.status # "UNSET" THEN u.status ELSE @,
            !.scheduled_time = IF u.scheduled_time # Null THEN u.scheduled_time ELSE @,
            !.duration_hours = IF u.duration_hours # Null THEN u.duration_hours ELSE @ ]
      reply(code, errors) ==
        [ op |-> "updateEventService", code |-> code, errors |-> errors,
          event_id |-> IF found THEN existingEventService.event_id ELSE Null ]
      failed(errors) == [ db |-> D, resp |-> reply(400, errors) ]
  IN  IF ~found THEN failed({ "Event service not found" })
      ELSE IF validateEventServiceData(u) # { } THEN failed(validateEventServiceData(u))
      ELSE IF /\ Truthy(u.event_id)
              /\ u.event_id # existingEventService.event_id
              /\ ( event.event_id = Null \/ event.status = "CANCELLED" )
        THEN failed({ "Event not found or cancelled" })
      ELSE IF /\ Truthy(u.service_id)
              /\ u.service_id # existingEventService.service_id
              /\ ( service.service_id = Null \/ ~service.is_active )
        THEN failed({ "Service not found or inactive" })
      ELSE IF /\ variationChanges
              /\ ( \/ variation.variation_id = Null
                   \/ ~variation.is_active
                   \/ variation.service_id #
                        ( IF Truthy(u.service_id) THEN u.service_id
                          ELSE existingEventService.service_id ) )
        THEN failed({ "Variation not found, inactive, or does not belong to the specified service" })
      ELSE IF /\ variationChanges
              /\ Given(u.scheduled_time)
              /\ Truthy(u.duration_hours)
              /\ ~checkVariationAvailability(u.variation_id, u.scheduled_time,
                                             u.duration_hours).isValid
        THEN failed({ checkVariationAvailability(u.variation_id, u.scheduled_time,
                                                 u.duration_hours).error })
      ELSE IF /\ ~variationChanges
              /\ Truthy(u.variation_id)
              /\ ( Given(u.scheduled_time) \/ Truthy(u.duration_hours) )
              /\ Given(effectiveScheduledTime)
              /\ Truthy(effectiveDurationHours)
              /\ ~checkVariationAvailability(u.variation_id, effectiveScheduledTime,
                                             effectiveDurationHours).isValid
        THEN failed({ checkVariationAvailability(u.variation_id, effectiveScheduledTime,
                                                 effectiveDurationHours).error })
      ELSE [ db |-> [ D EXCEPT !.eventServices[eventServiceId] = updatedEventService ],
             resp |-> reply(200, { }) ]

\* ------------------------------------------------------------- requests
Windows == { w \in Times \X Times : w[1] < w[2] }

NoVariants == << >>

PlainCreateInput ==
  [ room_id |-> 1, start_time |-> 0, end_time |-> 1, status |-> "UNSET",
    estimated_cost |-> Null, account_id |-> 1, service_variants |-> NoVariants,
    fault |-> "none" ]

\* Requests with one invalid field or one invalid reference.
InvalidCreateInputs ==
  { [ PlainCreateInput EXCEPT !.room_id = r ] : r \in { Null, 3, 4 } }
  \cup { [ PlainCreateInput EXCEPT !.start_time = w[1], !.end_time = w[2] ] :
         w \in { << 0, 0 >>, << 1, 0 >> } }
  \cup { [ PlainCreateInput EXCEPT !.status = st ] : st \in { "ACCEPTED", "BOGUS" } }
  \cup { [ PlainCreateInput EXCEPT !.estimated_cost = 0 - 5 ] }
  \cup { [ PlainCreateInput EXCEPT !.account_id = 9 ] }

\* Room bookings: a room, a window and optionally a status; no services.
BookingCreateInputs ==
  { [ PlainCreateInput EXCEPT !.room_id = r, !.start_time = w[1], !.end_time = w[2],
                              !.status = st ] :
    r \in { 1, 2 }, w \in Windows, st \in { "UNSET", "CONFIRMED" } }
  \cup InvalidCreateInputs

NoUpdate ==
  [ start_time |-> Null, end_time |-> Null, room_id |-> Null, status |-> "UNSET",
    estimated_cost |-> Null, account_id |-> Null, service_id |-> Null,
    variation_id |-> Null, fault |-> "none" ]

\* Updates of a booking: a status, a new window, a new end, an unknown account.
BookingUpdateInputs ==
  { [ NoUpdate EXCEPT !.status = st ] : st \in { "CONFIRMED", "CANCELLED", "BOGUS" } }
  \cup { [ NoUpdate EXCEPT !.start_time = w[1], !.end_time = w[2] ] :
         w \in { << 0, 1 >>, << 1, 0 >> } }
  \cup { [ NoUpdate EXCEPT !.end_time = MaxTime ] }
  \cup { [ NoUpdate EXCEPT !.account_id = 9 ] }

\* Points of the create and update workflows where a database statement
\* can fail (connection loss, constraint violation).
Faults ==
  { "none", "event", "invoice", "roomDetail", "eventService", "serviceDetail",
    "costUpdate" }

Variant(service_id, variant_id) == [ service_id |-> service_id, variant_id |-> variant_id ]

GoodVariants == { NoVariants, << Variant(1, 1) >>, << Variant(1, 1), Variant(1, 2) >> }

\* An inactive service, a variation of another service, a good pair followed
\* by a bad one.
BadVariants == { << Variant(2, 3) >>, << Variant(1, 3) >>, << Variant(1, 1), Variant(2, 3) >> }

\* Creations of the whole workflow: room, window, base cost, services, faults.
WorkflowCreateInputs ==
  { [ PlainCreateInput EXCEPT !.end_time = e, !.estimated_cost = c,
                              !.service_variants = sv ] :
    e \in { 1, 2 }, c \in { Null, 3 }, sv \in GoodVariants }
  \cup { [ PlainCreateInput EXCEPT !.room_id = 2, !.service_variants = sv ] :
         sv \in { NoVariants, << Variant(1, 1) >> } }
  \cup { [ PlainCreateInput EXCEPT !.service_variants = sv ] : sv \in BadVariants }
  \cup { [ PlainCreateInput EXCEPT !.service_variants = sv, !.fault = f ] :
         sv \in { NoVariants, << Variant(1, 1) >> }, f \in Faults \ { "none" } }
  \cup InvalidCreateInputs

\* Updates of the whole workflow: a service and variation, a cost, a room,
\* a window, a fault.
WorkflowUpdateInputs ==
  { [ NoUpdate EXCEPT !.service_id = p[1], !.variation_id = p[2] ] :
    p \in { << 1, 1 >>, << 2, 3 >>, << 1, 3 >> } }
  \cup { [ NoUpdate EXCEPT !.service_id = 1, !.variation_id = 1, !.fault = f ] :
         f \in { "eventService", "event", "serviceDetail" } }
  \cup { [ NoUpdate EXCEPT !.estimated_cost = 7 ] }
  \cup { [ NoUpdate EXCEPT !.room_id = r, !.start_time = 0, !.end_time = e ] :
         r \in { 2, 3 }, e \in { Null, 2 } }
  \cup { [ NoUpdate EXCEPT !.start_time = 0, !.end_time = 2 ] }
  \cup { [ NoUpdate EXCEPT !.status = "BOGUS" ] }

PlainEventServiceInput ==
  [ event_id |-> 1, service_id |-> 1, variation_id |-> 1, quantity |-> Null,
    custom_price |-> Null, status |-> "UNSET", scheduled_time |-> 0,
    duration_hours |-> 1, fault |-> "none" ]

\* Direct bookings of a service for an event, valid and invalid.
CreateEventServiceInputs ==
  { [ PlainEventServiceInput EXCEPT !.event_id = e, !.variation_id = v ] :
    e \in 1 .. MaxWorkflowEvents + 1, v \in { 1, 3 } }
  \cup { [ PlainEventServiceInput EXCEPT !.quantity = 0 ] }
  \cup { [ PlainEventServiceInput EXCEPT !.service_id = sv ] : sv \in { Null, 2 } }
  \cup { [ PlainEventServiceInput EXCEPT !.status = "BOGUS" ] }
  \cup { [ PlainEventServiceInput EXCEPT !.fault = "eventService" ] }

NoEventServiceUpdate ==
  [ event_id |-> Null, service_id |-> 1, variation_id |-> Null, quantity |-> Null,
    custom_price |-> Null, status |-> "UNSET", scheduled_time |-> Null,
    duration_hours |-> Null ]

\* Updates of a booked service, valid and invalid.
UpdateEventServiceInputs ==
  { [ NoEventServiceUpdate EXCEPT !.service_id = sv ] : sv \in { Null, 2 } }
  \cup { [ NoEventServiceUpdate EXCEPT !.variation_id = 3 ] }
  \cup { [ NoEventServiceUpdate EXCEPT !.status = st ] : st \in { "CANCELLED", "BOGUS" } }
  \cup { [ NoEventServiceUpdate EXCEPT !.event_id = 3 ] }

\* Concurrent creations: two intersecting windows of room 1, with and
\* without a status, with and without a service.
ConcurrentCreateInputs ==
  { [ PlainCreateInput EXCEPT !.start_time = w[1], !.end_time = w[2], !.status = st ] :
    w \in { << 0, 2 >>, << 1, 2 >> }, st \in { "UNSET", "CONFIRMED" } }
  \cup { [ PlainCreateInput EXCEPT !.end_time = 2, !.service_variants = << Variant(1, 1) >> ] }
  \cup { [ PlainCreateInput EXCEPT !.room_id = Null ] }

\* Concurrent direct bookings of variation 1 for [0, 2), and an invalid one.
ConcurrentEventServiceInputs ==
  { [ PlainEventServiceInput EXCEPT !.duration_hours = 2 ],
    [ PlainEventServiceInput EXCEPT !.duration_hours = 2, !.variation_id = 3 ] }

\* Creations that differ in room, duration, base cost and booked services.
CostCreateInputs ==
  { [ PlainCreateInput EXCEPT !.room_id = r, !.end_time = e, !.estimated_cost = c,
                              !.service_variants = sv ] :
    r \in { 1, 2 }, e \in { 1, 2 }, c \in { Null, 3 }, sv \in GoodVariants }

\* Creations for the status operations: with and without a status.
StatusCreateInputs ==
  { [ PlainCreateInput EXCEPT !.status = st ] : st \in { "UNSET", "CONFIRMED" } }

NoResponse == [ op |-> "none", code |-> 0, errors |-> { }, event_id |-> Null ]

\* Client addresses (req.ip).
ClientIps == { 1, 2 }

\* An address with no entry in the Map.
NoAttempts == [ present |-> FALSE, count |-> 0, firstAttempt |-> 0 ]

\* A request slot of the server: free, or a request between two awaits.
\* pc is the next step of its handler, data what createEvent returned, with
\* the slots whose requests were in flight when this one arrived.
FreeSlot ==
  [ kind |-> "free", pc |-> "none", d |-> PlainCreateInput, data |-> NoData,
    with |-> { }, resp |-> NoResponse ]

Init ==
  /\ events = { }
  /\ eventServices = << >>
  /\ invoices = { }
  /\ invoiceDetails = << >>
  /\ nextEventId = 1
  /\ nextInvoiceId = 1
  /\ payments = { }
  /\ reviews = { }
  /\ nextPaymentId = 1
  /\ nextReviewId = 1
  /\ last = NoResponse
  /\ reqs = [ i \in 1 .. MaxRequests |-> FreeSlot ]
  /\ clock = 0
  /\ invoiceNumbers = { }
  /\ attempts = [ ip \in ClientIps |-> NoAttempts ]

\* POST /events handled without interleaving.
CreateEventRequest(inputs, maxEvents) ==
  \E d \in inputs :
    /\ nextEventId <= maxEvents
    /\ Len(eventServices) + Len(d.service_variants) <= MaxEventServices
    /\ Commit(createEventController(CurDb, d).db)
    /\ last' = createEventController(CurDb, d).resp
    /\ UNCHANGED reqs

\* PUT /events/:id by a staff or admin caller.
UpdateEventRequest(inputs) ==
  \E eventId \in 1 .. nextEventId, u \in inputs :
    /\ \/ Len(eventServices) < MaxEventServices
       \/ \E i \in 1 .. Len(eventServices) : eventServices[i].event_id = eventId
       \/ u.service_id = Null
    /\ Commit(updateEventController(CurDb, eventId, u).db)
    /\ last' = updateEventController(CurDb, eventId, u).resp
    /\ UNCHANGED reqs

\* PATCH /events/:id/toggle-status.
ToggleEventStatusRequest ==
  \E eventId \in 1 .. nextEventId :
    /\ Commit(toggleEventStatus(CurDb, eventId).db)
    /\ last' = toggleEventStatus(CurDb, eventId).resp
    /\ UNCHANGED reqs

\* PATCH /events/:id/status.
UpdateEventStatusRequest ==
  \E eventId \in 1 .. nextEventId,
     status \in { "UNSET", "PENDING", "CONFIRMED", "IN_PROGRESS", "CANCELLED",
                  "COMPLETED" } :
    /\ Commit(updateEventStatusController(CurDb, eventId, status).db)
    /\ last' = updateEventStatusController(CurDb, eventId, status).resp
    /\ UNCHANGED reqs

\* POST /event-services.
CreateEventServiceRequest(inputs) ==
  \E d \in inputs :
    /\ Len(eventServices) < MaxEventServices
    /\ Commit(createEventService(CurDb, d).db)
    /\ last' = createEventService(CurDb, d).resp
    /\ UNCHANGED reqs

\* PUT /event-services/:id.
UpdateEventServiceRequest(inputs) ==
  \E eventServiceId \in 1 .. Len(eventServices) + 1, u \in inputs :
    /\ Commit(updateEventService(CurDb, eventServiceId, u).db)
    /\ last' = updateEventService(CurDb, eventServiceId, u).resp
    /\ UNCHANGED reqs

\* ---------------------------------------------------- interleaved requests
\* The handlers are async functions: between two awaits of one request the
\* event loop runs other requests, and every statement sees what is committed
\* at the time it runs (READ COMMITTED).
InFlight(i) == reqs[i].kind # "free" /\ reqs[i].pc # "done"

\* Event rows the in-flight requests may still insert.
PendingEvents ==
  Cardinality({ i \in 1 .. MaxRequests :
                  reqs[i].kind = "createEvent" /\ reqs[i].pc \in { "check", "insert" } })

\* EventService rows the in-flight requests may still insert.
PendingEventServices ==
  Cardinality({ i \in 1 .. MaxRequests : InFlight(i) /\ reqs[i].kind = "createEventService" })
  + Cardinality({ i \in 1 .. MaxRequests :
                    /\ InFlight(i)
                    /\ reqs[i].kind = "createEvent"
                    /\ reqs[i].d.service_variants # << >> })

Finish(i, resp) ==
  /\ reqs' = [ reqs EXCEPT ![i].pc = "done", ![i].resp = resp ]
  /\ last' = resp

\* A POST /events request arrives.
BeginCreateEvent(inputs) ==
  \E i \in 1 .. MaxRequests, d \in inputs :
    /\ reqs[i].kind = "free"
    /\ nextEventId + PendingEvents <= MaxEvents
    /\ Len(eventServices) + PendingEventServices + Len(d.service_variants)
         <= MaxEventServices
    /\ reqs' = [ reqs EXCEPT ![i] =
                   [ FreeSlot EXCEPT !.kind = "createEvent", !.pc = "check", !.d = d,
                       !.with = { j \in 1 .. MaxRequests : InFlight(j) } ] ]
    /\ UNCHANGED << db, last >>

\* innerCreateEvent up to the availability query, which reads the committed
\* events through the global client.
CheckCreateEvent ==
  \E i \in 1 .. MaxRequests :
    /\ reqs[i].kind = "createEvent"
    /\ reqs[i].pc = "check"
    /\ IF innerCreateEventErrors(events, reqs[i].d) # { }
         THEN Finish(i, createEventController(CurDb, reqs[i].d).resp)
         ELSE /\ reqs' = [ reqs EXCEPT ![i].pc = "insert" ]
              /\ UNCHANGED last
    /\ UNCHANGED db

\* The writes of innerCreateEvent and the commit of its transaction.
InsertCreateEvent ==
  \E i \in 1 .. MaxRequests :
    LET result == innerCreateEventWrites(CurDb, reqs[i].d)
        resp ==
          [ op |-> "createEvent", code |-> IF result.isValid THEN 201 ELSE 400,
            errors |-> result.errors, event_id |-> result.data.event_id ]
    IN  /\ reqs[i].kind = "createEvent"
        /\ reqs[i].pc = "insert"
        /\ Commit(result.db)
        /\ IF result.isValid /\ reqs[i].d.service_variants # << >>
             THEN /\ reqs' = [ reqs EXCEPT ![i].pc = "services", ![i].data = result.data ]
                  /\ UNCHANGED last
             ELSE Finish(i, resp)

\* The controller's transaction over service_variants.
ServicesCreateEvent ==
  \E i \in 1 .. MaxRequests :
    LET tx == serviceVariantsTransaction(CurDb, reqs[i].data, reqs[i].d.service_variants,
                                         reqs[i].d.fault)
    IN  /\ reqs[i].kind = "createEvent"
        /\ reqs[i].pc = "services"
        /\ Commit(tx.db)
        /\ Finish(i, [ op |-> "createEvent", code |-> IF tx.threw THEN 500 ELSE 201,
                       errors |-> { }, event_id |-> reqs[i].data.event_id ])

\* A POST /event-services request arrives.
BeginCreateEventService ==
  \E i \in 1 .. MaxRequests, d \in ConcurrentEventServiceInputs :
    /\ reqs[i].kind = "free"
    /\ Len(eventServices) + PendingEventServices < MaxEventServices
    /\ reqs' = [ reqs EXCEPT ![i] =
                   [ FreeSlot EXCEPT !.kind = "createEventService", !.pc = "check",
                       !.d = d, !.with = { j \in 1 .. MaxRequests : InFlight(j) } ] ]
    /\ UNCHANGED << db, last >>

\* createEventService up to the availability check.
CheckCreateEventService ==
  \E i \in 1 .. MaxRequests :
    /\ reqs[i].kind = "createEventService"
    /\ reqs[i].pc = "check"
    /\ IF createEventServiceErrors(events, reqs[i].d) # { }
         THEN Finish(i, createEventService(CurDb, reqs[i].d).resp)
         ELSE /\ reqs' = [ reqs EXCEPT ![i].pc = "insert" ]
              /\ UNCHANGED last
    /\ UNCHANGED db

\* The insert of createEventService.
InsertCreateEventService ==
  \E i \in 1 .. MaxRequests :
    /\ reqs[i].kind = "createEventService"
    /\ reqs[i].pc = "insert"
    /\ Commit(createEventServiceInsert(CurDb, reqs[i].d).db)
    /\ Finish(i, createEventServiceInsert(CurDb, reqs[i].d).resp)

\* The reply of a finished request has been delivered; its slot is free again.
Retire ==
  \E i \in 1 .. MaxRequests :
    /\ reqs[i].kind # "free"
    /\ reqs[i].pc = "done"
    /\ reqs' = [ j \in 1 .. MaxRequests |->
                   IF j = i THEN FreeSlot
                   ELSE [ reqs[j] EXCEPT !.with = @ \ { i } ] ]
    /\ UNCHANGED << db, last >>

\* Room bookings and their status changes, one request at a time.
Next ==
  \/ CreateEventRequest(BookingCreateInputs, MaxEvents)
  \/ UpdateEventRequest(BookingUpdateInputs)
  \/ ToggleEventStatusRequest
  \/ UpdateEventStatusRequest

Spec == Init /\ [][Next]_vars

\* The event workflow with its services, invoice and cost, one request at a
\* time.
NextWorkflow ==
  \/ CreateEventRequest(WorkflowCreateInputs, MaxWorkflowEvents)
  \/ UpdateEventRequest(WorkflowUpdateInputs)
  \/ CreateEventServiceRequest(CreateEventServiceInputs)
  \/ UpdateEventServiceRequest(UpdateEventServiceInputs)

SpecWorkflow == Init /\ [][NextWorkflow]_vars

\* Up to MaxRequests bookings in flight at once.
NextConcurrent ==
  \/ BeginCreateEvent(ConcurrentCreateInputs)
  \/ CheckCreateEvent
  \/ InsertCreateEvent
  \/ ServicesCreateEvent
  \/ BeginCreateEventService
  \/ CheckCreateEventService
  \/ InsertCreateEventService
  \/ Retire

SpecConcurrent == Init /\ [][NextConcurrent]_vars

\* Creations only, for the cost of an event.
NextCost == CreateEventRequest(CostCreateInputs, MaxEvents)

SpecCost == Init /\ [][NextCost]_vars

\* The status operations on created events.
NextStatus ==
  \/ CreateEventRequest(StatusCreateInputs, MaxEvents)
  \/ ToggleEventStatusRequest
  \/ UpdateEventStatusRequest

SpecStatus == Init /\ [][NextStatus]_vars

\* ------------------------------------------------------------- payments
\* A payments row carries the columns the payment operations read or write;
\* amount, method, dates and notes take no part in them.  A Stripe checkout
\* session is identified by the number of the payment created for it.
NoPayment == [ payment_id |-> Null ]

PaymentById(pays, id) ==
  IF \E p \in pays : p.payment_id = id
    THEN CHOOSE p \in pays : p.payment_id = id
    ELSE NoPayment

\* tx.payment.findFirst({ where: { stripe_payment_id: session_id } }).
PaymentOfSession(pays, session_id) ==
  IF \E p \in pays : p.stripe_payment_id = session_id
    THEN CHOOSE p \in pays : p.stripe_payment_id = session_id
    ELSE NoPayment

InvoiceById(invs, id) ==
  IF \E i \in invs : i.invoice_id = id
    THEN CHOOSE i \in invs : i.invoice_id = id
    ELSE [ invoice_id |-> Null ]

\* parseAndValidateId: a number greater than 0, else null.
parseAndValidateId(id) == IF id = Null \/ id <= 0 THEN Null ELSE id

\* The event id is validated whether or not the data carries one.
validateInvoiceData(d) ==
  ( IF d.total_amount # Null /\ d.total_amount < 0 THEN { "Total amount out of range" } ELSE { } )
  \cup ( IF parseAndValidateId(d.event_id) = Null THEN { "Invalid event ID" } ELSE { } )
  \cup ( IF d.status # "UNSET" /\ d.status \notin { "PENDING", "PAID", "CANCELLED" }
           THEN { "Invalid invoice status" } ELSE { } )

\* The update every payment operation sends: { status: 'PAID', paid_at }.
PaidUpdate == [ event_id |-> Null, total_amount |-> Null, status |-> "PAID" ]

\* updateInvoice on the caller's transaction; its own errors are caught and
\* returned as an invalid result.
updateInvoice(D, invoiceId, updateData) ==
  LET existingInvoice == InvoiceById(D.invoices, invoiceId)
      validationErrors == validateInvoiceData(updateData)
      event == EventById(D.events, updateData.event_id)
      updatedInvoice ==
        [ existingInvoice EXCEPT
            !.event_id = IF updateData.event_id # Null THEN updateData.event_id ELSE @,
            !.total_amount = IF updateData.total_amount # Null THEN updateData.total_amount ELSE @,
            !.status = IF updateData.status # "UNSET" THEN updateData.status ELSE @ ]
      fail(errors) == [ isValid |-> FALSE, errors |-> errors, db |-> D ]
  IN  IF existingInvoice.invoice_id = Null THEN fail({ "Invoice not found" })
      ELSE IF validationErrors # { } THEN fail(validationErrors)
      ELSE IF /\ Truthy(updateData.event_id)
              /\ updateData.event_id # existingInvoice.event_id
              /\ ( event.event_id = Null \/ event.status = "CANCELLED" )
        THEN fail({ "Event not found or cancelled" })
      ELSE IF \E i \in D.invoices \ { existingInvoice } : i.event_id = updatedInvoice.event_id
        THEN fail({ "database error" })
      ELSE [ isValid |-> TRUE, errors |-> { },
             db |-> [ D EXCEPT !.invoices = ( @ \ { existingInvoice } ) \cup { updatedInvoice } ] ]

\* Math.round(amount / 23000) of a non-negative amount.
convertCurrency(amount) == ( 2 * amount + 23000 ) \div 46000

PaymentResponse(op, code) == [ op |-> op, code |-> code, errors |-> { }, event_id |-> Null ]

\* POST /payments/stripe/checkout by the authenticated account caller.
createCheckoutSession(D, caller, userId, event_id) ==
  LET event == EventById(D.events, event_id)
      invoice == InvoiceOfEvent(D.invoices, event_id)
      totalAmount == convertCurrency(event.estimated_cost)
      newPayment ==
        [ payment_id |-> D.nextPaymentId, payment_status |-> "PENDING",
          stripe_payment_id |-> D.nextPaymentId, account_id |-> userId,
          invoice_id |-> invoice.invoice_id, event_id |-> event_id ]
      reply(code) == [ db |-> D, resp |-> PaymentResponse("createCheckoutSession", code) ]
  IN  IF ~ Truthy(userId) \/ ~ Truthy(event_id) THEN reply(400)
      ELSE IF userId # caller THEN reply(403)
      ELSE IF event.event_id = Null \/ event.status = "CANCELLED" THEN reply(404)
      ELSE IF event.account_id # userId THEN reply(403)
      ELSE IF invoice.invoice_id = Null THEN reply(404)
      ELSE IF invoice.status = "PAID" THEN reply(400)
      ELSE IF invoice.account_id # userId THEN reply(403)
      ELSE IF totalAmount > invoice.total_amount THEN reply(400)
      ELSE [ db |-> [ D EXCEPT !.payments = @ \cup { newPayment },
                               !.nextPaymentId = @ + 1 ],
             resp |-> PaymentResponse("createCheckoutSession", 200) ]

\* updateMany({ where: { stripe_payment_id }, data: { payment_status: 'CANCELLED' } }).
CancelSessionPayments(D, session_id) ==
  [ D EXCEPT !.payments =
      { IF p.stripe_payment_id = session_id
          THEN [ p EXCEPT !.payment_status = "CANCELLED" ] ELSE p : p \in @ } ]

\* The transaction of the two Stripe handlers.  Returning an invalid result
\* from the callback does not roll the transaction back: what was written
\* before the return is committed.
completeSessionPayment(D, session_id, confirmsEvent) ==
  LET payment == PaymentOfSession(D.payments, session_id)
      completed ==
        [ D EXCEPT !.payments =
            ( @ \ { payment } ) \cup { [ payment EXCEPT !.payment_status = "COMPLETED" ] } ]
      invoiceUpdate == updateInvoice(completed, payment.invoice_id, PaidUpdate)
      afterInvoice == IF Truthy(payment.invoice_id) THEN invoiceUpdate.db ELSE completed
      event == EventById(afterInvoice.events, payment.event_id)
  IN  IF payment.payment_id = Null THEN [ isValid |-> FALSE, db |-> D ]
      ELSE IF Truthy(payment.invoice_id) /\ ~ invoiceUpdate.isValid
        THEN [ isValid |-> FALSE, db |-> completed ]
      ELSE IF confirmsEvent /\ Truthy(payment.event_id)
        THEN [ isValid |-> TRUE,
               db |-> [ afterInvoice EXCEPT !.events =
                          ( @ \ { event } ) \cup { [ event EXCEPT !.status = "CONFIRMED" ] } ] ]
      ELSE [ isValid |-> TRUE, db |-> afterInvoice ]

\* GET /payments/stripe/callback?status=&session_id= ; the reply is a redirect.
stripeCallback(D, status, session_id) ==
  LET tx == completeSessionPayment(D, session_id, TRUE)
  IN  IF status = "UNSET" \/ session_id = Null
        THEN [ db |-> D, resp |-> PaymentResponse("stripeCallback", 400) ]
      ELSE IF status = "canceled"
        THEN [ db |-> CancelSessionPayments(D, session_id),
               resp |-> PaymentResponse("stripeCallback", 400) ]
      ELSE [ db |-> tx.db,
             resp |-> PaymentResponse("stripeCallback", IF tx.isValid THEN 200 ELSE 400) ]

\* GET /payments/stripe/check-session?session_id= ; sessionStatus is what
\* Stripe reports for the session.
checkSession(D, session_id, sessionStatus) ==
  LET tx == completeSessionPayment(D, session_id, FALSE)
  IN  IF session_id = Null
        THEN [ db |-> D, resp |-> PaymentResponse("checkSession", 400) ]
      ELSE IF sessionStatus = "complete"
        THEN [ db |-> tx.db,
               resp |-> PaymentResponse("checkSession", IF tx.isValid THEN 200 ELSE 400) ]
      ELSE IF sessionStatus = "expired"
        THEN [ db |-> CancelSessionPayments(D, session_id),
               resp |-> PaymentResponse("checkSession", 200) ]
      ELSE [ db |-> D, resp |-> PaymentResponse("checkSession", 200) ]

validatePaymentData(paymentData) ==
  ( IF parseAndValidateId(paymentData.event_id) = Null THEN { "Invalid event ID" } ELSE { } )
  \cup ( IF parseAndValidateId(paymentData.account_id) = Null THEN { "Invalid account ID" } ELSE { } )
  \cup ( IF paymentData.status # "UNSET"
            /\ paymentData.status \notin { "PENDING", "COMPLETED", "FAILED", "CANCELLED" }
           THEN { "Invalid payment status" } ELSE { } )

PaymentIdErrors(paymentData) ==
  validatePaymentData(paymentData)
  \cup ( IF Truthy(paymentData.invoice_id) /\ parseAndValidateId(paymentData.invoice_id) = Null
           THEN { "Invalid invoice ID" } ELSE { } )

\* createPayment: the payment row and the invoice update are one transaction;
\* a failed invoice update throws and rolls the payment back.
createPayment(D, paymentData) ==
  LET status == IF paymentData.status = "UNSET" THEN "PENDING" ELSE paymentData.status
      validationErrors == PaymentIdErrors(paymentData)
      event == EventById(D.events, paymentData.event_id)
      invoice == InvoiceById(D.invoices, paymentData.invoice_id)
      payment ==
        [ payment_id |-> D.nextPaymentId, payment_status |-> status,
          stripe_payment_id |-> paymentData.stripe_payment_id,
          account_id |-> paymentData.account_id,
          invoice_id |-> IF Truthy(paymentData.invoice_id) THEN paymentData.invoice_id ELSE Null,
          event_id |-> paymentData.event_id ]
      created == [ D EXCEPT !.payments = @ \cup { payment }, !.nextPaymentId = @ + 1 ]
      invoiceUpdate == updateInvoice(created, paymentData.invoice_id, PaidUpdate)
      fail(errors) == [ isValid |-> FALSE, errors |-> errors, db |-> D ]
  IN  IF validationErrors # { } THEN fail(validationErrors)
      ELSE IF event.event_id = Null \/ event.status = "CANCELLED"
        THEN fail({ "Event not found or cancelled" })
      ELSE IF event.account_id # paymentData.account_id
        THEN fail({ "Account does not match event" })
      ELSE IF Truthy(paymentData.invoice_id) /\ invoice.invoice_id = Null
        THEN fail({ "Invoice not found" })
      ELSE IF Truthy(paymentData.invoice_id) /\ invoice.status = "PAID"
        THEN fail({ "Invoice already paid" })
      ELSE IF status = "COMPLETED" /\ Truthy(paymentData.invoice_id)
        THEN IF invoiceUpdate.isValid
               THEN [ isValid |-> TRUE, errors |-> { }, db |-> invoiceUpdate.db ]
               ELSE fail({ "Failed to update invoice" })
      ELSE [ isValid |-> TRUE, errors |-> { }, db |-> created ]

\* POST /payments: the account is the authenticated caller's.
createPaymentController(D, caller, body) ==
  LET result == createPayment(D, [ body EXCEPT !.account_id = caller ])
  IN  [ db |-> result.db,
        resp |-> [ op |-> "createPayment", code |-> IF result.isValid THEN 201 ELSE 400,
                   errors |-> result.errors, event_id |-> Null ] ]

\* updatePayment: the same transaction shape for an existing payment.
updatePayment(D, paymentId, updateData) ==
  LET existingPayment == PaymentById(D.payments, paymentId)
      validationErrors == PaymentIdErrors(updateData)
      event == EventById(D.events, updateData.event_id)
      invoice == InvoiceById(D.invoices, updateData.invoice_id)
      payment ==
        [ existingPayment EXCEPT
            !.event_id = IF updateData.event_id # Null THEN updateData.event_id ELSE @,
            !.account_id = IF updateData.account_id # Null THEN updateData.account_id ELSE @,
            !.payment_status = IF updateData.status # "UNSET" THEN updateData.status ELSE @,
            !.stripe_payment_id =
               IF updateData.stripe_payment_id # Null THEN updateData.stripe_payment_id ELSE @,
            !.invoice_id = IF updateData.invoice_id # Null THEN updateData.invoice_id ELSE @ ]
      updated == [ D EXCEPT !.payments = ( @ \ { existingPayment } ) \cup { payment } ]
      invoiceUpdate == updateInvoice(updated, updateData.invoice_id, PaidUpdate)
      fail(errors) == [ isValid |-> FALSE, errors |-> errors, db |-> D ]
  IN  IF existingPayment.payment_id = Null THEN fail({ "Payment not found" })
      ELSE IF validationErrors # { } THEN fail(validationErrors)
      ELSE IF /\ Truthy(updateData.event_id)
              /\ updateData.event_id # existingPayment.event_id
              /\ ( event.event_id = Null \/ event.status = "CANCELLED" )
        THEN fail({ "Event not found or cancelled" })
      ELSE IF /\ Truthy(updateData.event_id)
              /\ updateData.event_id # existingPayment.event_id
              /\ Truthy(updateData.account_id)
              /\ event.account_id # updateData.account_id
        THEN fail({ "Account does not match event" })
      ELSE IF /\ Truthy(updateData.invoice_id)
              /\ updateData.invoice_id # existingPayment.invoice_id
              /\ invoice.invoice_id = Null
        THEN fail({ "Invoice not found" })
      ELSE IF /\ Truthy(updateData.invoice_id)
              /\ updateData.invoice_id # existingPayment.invoice_id
              /\ invoice.status = "PAID"
        THEN fail({ "Invoice already paid" })
      ELSE IF /\ updateData.status = "COMPLETED"
              /\ Truthy(updateData.invoice_id)
              /\ existingPayment.payment_status # "COMPLETED"
        THEN IF invoiceUpdate.isValid
               THEN [ isValid |-> TRUE, errors |-> { }, db |-> invoiceUpdate.db ]
               ELSE fail({ "Failed to update invoice" })
      ELSE [ isValid |-> TRUE, errors |-> { }, db |-> updated ]

\* PUT /payments/:id: the ownership test comes after the update is committed.
updatePaymentController(D, caller, paymentId, body) ==
  LET result == updatePayment(D, paymentId, body)
      owner == PaymentById(result.db.payments, paymentId).account_id
  IN  [ db |-> result.db,
        resp |-> [ op |-> "updatePayment",
                   code |-> IF ~ result.isValid THEN 400
                            ELSE IF owner # caller THEN 403 ELSE 200,
                   errors |-> result.errors, event_id |-> Null ] ]

\* Events for the payment operations: one with an invoice (room 1), one with
\* an estimated cost of 0 and no invoice (room 2).
PaymentCreateInputs == { PlainCreateInput, [ PlainCreateInput EXCEPT !.room_id = 2 ] }

\* The account of the authenticated caller.
Caller == 1

CreatePaymentInputs ==
  { [ event_id |-> e, account_id |-> Null, status |-> st, invoice_id |-> inv,
      stripe_payment_id |-> sid ] :
    e \in { 1, 2 }, st \in { "UNSET", "COMPLETED" }, inv \in { Null, 1 }, sid \in { Null, 9 } }

UpdatePaymentInputs ==
  { [ event_id |-> e, account_id |-> Caller, status |-> st, invoice_id |-> inv,
      stripe_payment_id |-> Null ] :
    e \in { Null, 1 }, st \in { "UNSET", "COMPLETED", "FAILED" }, inv \in { Null, 1 } }

SessionIds == ( 1 .. MaxPayments ) \cup { 9 }

CreateCheckoutSessionRequest ==
  \E event_id \in 1 .. nextEventId :
    /\ nextPaymentId <= MaxPayments
    /\ Commit(createCheckoutSession(CurDb, Caller, Caller, event_id).db)
    /\ last' = createCheckoutSession(CurDb, Caller, Caller, event_id).resp
    /\ UNCHANGED reqs

StripeCallbackRequest ==
  \E status \in { "UNSET", "canceled", "success" }, session_id \in SessionIds :
    /\ Commit(stripeCallback(CurDb, status, session_id).db)
    /\ last' = stripeCallback(CurDb, status, session_id).resp
    /\ UNCHANGED reqs

CheckSessionRequest ==
  \E session_id \in SessionIds, sessionStatus \in { "complete", "expired", "open" } :
    /\ Commit(checkSession(CurDb, session_id, sessionStatus).db)
    /\ last' = checkSession(CurDb, session_id, sessionStatus).resp
    /\ UNCHANGED reqs

CreatePaymentRequest(inputs) ==
  \E body \in inputs :
    /\ nextPaymentId <= MaxPayments
    /\ Commit(createPaymentController(CurDb, Caller, body).db)
    /\ last' = createPaymentController(CurDb, Caller, body).resp
    /\ UNCHANGED reqs

UpdatePaymentRequest ==
  \E paymentId \in 1 .. nextPaymentId, body \in UpdatePaymentInputs :
    /\ Commit(updatePaymentController(CurDb, Caller, paymentId, body).db)
    /\ last' = updatePaymentController(CurDb, Caller, paymentId, body).resp
    /\ UNCHANGED reqs

\* Events, then their payments by Stripe and by hand.
NextPayment ==
  \/ CreateEventRequest(PaymentCreateInputs, MaxEvents)
  \/ CreateCheckoutSessionRequest
  \/ StripeCallbackRequest
  \/ CheckSessionRequest
  \/ CreatePaymentRequest(CreatePaymentInputs)
  \/ UpdatePaymentRequest

SpecPayment == Init /\ [][NextPayment]_vars

\* ------------------------------------------------------- reviews, deletion
\* createReview for an event or a service; the rating and the comment take
\* no part in what follows.
createReview(D, reviewData) ==
  LET event == EventById(D.events, reviewData.event_id)
      service == ServiceById(reviewData.service_id)
      review ==
        [ review_id |-> D.nextReviewId, account_id |-> reviewData.account_id,
          service_id |-> IF Truthy(reviewData.service_id) THEN reviewData.service_id ELSE Null,
          event_id |-> IF Truthy(reviewData.event_id) THEN reviewData.event_id ELSE Null ]
      fail(errors) == [ isValid |-> FALSE, errors |-> errors, db |-> D ]
  IN  IF ~ Truthy(reviewData.service_id) /\ ~ Truthy(reviewData.event_id)
        THEN fail({ "At least one of service_id or event_id must be provided" })
      ELSE IF reviewData.account_id \notin Accounts THEN fail({ "Account not found" })
      ELSE IF Truthy(reviewData.service_id) /\ ( service.service_id = Null \/ ~ service.is_active )
        THEN fail({ "Service not found or inactive" })
      ELSE IF Truthy(reviewData.event_id) /\ ( event.event_id = Null \/ event.status = "CANCELLED" )
        THEN fail({ "Event not found or cancelled" })
      ELSE [ isValid |-> TRUE, errors |-> { },
             db |-> [ D EXCEPT !.reviews = @ \cup { review }, !.nextReviewId = @ + 1 ] ]

\* The rows deleteEvent's include loads with the event.
EventServicesOf(D, event_id) == SelectSeq(D.eventServices, LAMBDA es : es.event_id = event_id)
PaymentsOf(D, event_id) == { p \in D.payments : p.event_id = event_id }
ReviewsOf(D, event_id) == { r \in D.reviews : r.event_id = event_id }

\* tx.eventService.deleteMany, tx.payment.deleteMany.
deleteEventServicesOfEvent(D, event_id) ==
  [ D EXCEPT !.eventServices = SelectSeq(@, LAMBDA es : es.event_id # event_id) ]

deletePaymentsOfEvent(D, event_id) ==
  [ D EXCEPT !.payments = { p \in @ : p.event_id # event_id } ]

\* tx.reviews.deleteMany: the delegate of the reviews table.
deleteReviewsOfEvent(D, event_id) ==
  [ D EXCEPT !.reviews = { r \in @ : r.event_id # event_id } ]

\* tx.invoiceDetail.deleteMany and tx.invoice.delete; payments of the invoice
\* keep their row with invoice_id set to NULL (ON DELETE SET NULL).
deleteInvoice(D, invoice_id) ==
  [ D EXCEPT
      !.invoiceDetails = SelectSeq(@, LAMBDA det : det.invoice_id # invoice_id),
      !.invoices = { i \in @ : i.invoice_id # invoice_id },
      !.payments = { IF p.invoice_id = invoice_id THEN [ p EXCEPT !.invoice_id = Null ] ELSE p :
                     p \in @ } ]

\* tx.event.delete with the foreign keys' actions: event_services and invoices
\* cascade, payments and reviews are set to NULL.
deleteEventRow(D, event_id) ==
  LET invoice == InvoiceOfEvent(D.invoices, event_id)
      cascaded ==
        deleteEventServicesOfEvent(
          IF invoice.invoice_id # Null THEN deleteInvoice(D, invoice.invoice_id) ELSE D,
          event_id)
  IN  [ cascaded EXCEPT
          !.events = { e \in @ : e.event_id # event_id },
          !.payments = { IF p.event_id = event_id THEN [ p EXCEPT !.event_id = Null ] ELSE p :
                         p \in @ },
          !.reviews = { IF r.event_id = event_id THEN [ r EXCEPT !.event_id = Null ] ELSE r :
                        r \in @ } ]

NoCounts ==
  [ eventServicesCount |-> 0, paymentsCount |-> 0, reviewsCount |-> 0, hasInvoice |-> FALSE ]

hasDependenciesWithoutInvoice(D, event_id) ==
  \/ Len(EventServicesOf(D, event_id)) > 0
  \/ Cardinality(PaymentsOf(D, event_id)) > 0
  \/ Cardinality(ReviewsOf(D, event_id)) > 0

hasDependencies(D, event_id) ==
  \/ Len(EventServicesOf(D, event_id)) > 0
  \/ InvoiceOfEvent(D.invoices, event_id).invoice_id # Null
  \/ Cardinality(PaymentsOf(D, event_id)) > 0
  \/ Cardinality(ReviewsOf(D, event_id)) > 0

deleteEvent(D, eventId, forceDelete) ==
  LET existingEvent == EventById(D.events, eventId)
      invoice == InvoiceOfEvent(D.invoices, eventId)
      counts ==
        [ eventServicesCount |-> Len(EventServicesOf(D, eventId)),
          paymentsCount |-> Cardinality(PaymentsOf(D, eventId)),
          reviewsCount |-> Cardinality(ReviewsOf(D, eventId)),
          hasInvoice |-> invoice.invoice_id # Null ]
      withoutDependents ==
        LET a == deleteReviewsOfEvent(
                   deletePaymentsOfEvent(deleteEventServicesOfEvent(D, eventId), eventId),
                   eventId)
        IN  IF invoice.invoice_id # Null THEN deleteInvoice(a, invoice.invoice_id) ELSE a
  IN  IF existingEvent.event_id = Null
        THEN [ isValid |-> FALSE, errors |-> { "Event not found" }, db |-> D, data |-> NoCounts ]
      ELSE IF hasDependencies(D, eventId) /\ ~ forceDelete
        THEN [ isValid |-> FALSE, errors |-> { "Cannot delete event" }, db |-> D,
               data |-> counts ]
      ELSE [ isValid |-> TRUE, errors |-> { },
             db |-> deleteEventRow(IF forceDelete THEN withoutDependents ELSE D, eventId),
             data |-> NoCounts ]

\* DELETE /events/:id?forceDelete=
deleteEventController(D, eventId, forceDelete) ==
  LET result == deleteEvent(D, eventId, forceDelete)
  IN  [ db |-> result.db,
        resp |-> [ op |-> "deleteEvent", code |-> IF result.isValid THEN 200 ELSE 400,
                   errors |-> result.errors, event_id |-> eventId, data |-> result.data ] ]

\* Events for deletion: with an invoice, with an invoice and a booked
\* service, and with neither (room 2 costs nothing).
DeleteCreateInputs ==
  { PlainCreateInput,
    [ PlainCreateInput EXCEPT !.service_variants = << Variant(1, 1) >>, !.start_time = 1,
                              !.end_time = 2 ],
    [ PlainCreateInput EXCEPT !.room_id = 2 ] }

\* A payment of event 1 without an invoice, one of event 2 on invoice 1.
DeletePaymentInputs ==
  { [ event_id |-> pair[1], account_id |-> Null, status |-> "UNSET", invoice_id |-> pair[2],
      stripe_payment_id |-> Null ] : pair \in { << 1, Null >>, << 2, 1 >> } }

CreateReviewRequest ==
  \E event_id \in 1 .. nextEventId :
    LET result == createReview(CurDb, [ account_id |-> Caller, service_id |-> Null,
                                        event_id |-> event_id ])
    IN  /\ nextReviewId <= MaxReviews
        /\ Commit(result.db)
        /\ last' = [ op |-> "createReview", code |-> IF result.isValid THEN 201 ELSE 400,
                     errors |-> result.errors, event_id |-> event_id ]
        /\ UNCHANGED reqs

DeleteEventRequest ==
  \E eventId \in 1 .. nextEventId, forceDelete \in BOOLEAN :
    /\ Commit(deleteEventController(CurDb, eventId, forceDelete).db)
    /\ last' = deleteEventController(CurDb, eventId, forceDelete).resp
    /\ UNCHANGED reqs

\* Events with their dependent rows, and their deletion.
NextDelete ==
  \/ CreateEventRequest(DeleteCreateInputs, MaxEvents)
  \/ CreatePaymentRequest(DeletePaymentInputs)
  \/ CreateReviewRequest
  \/ DeleteEventRequest

SpecDelete == Init /\ [][NextDelete]_vars

\* ------------------------------------------------- updates by their caller
\* The advance, in hours, a customer needs to update an event.
HoursInAdvance == 24

\* The ownership and time-window test of updateEvent, made after the event is
\* found and before the update data is validated.  An event without a
\* start_time reads as the epoch, which precedes every current time.
CustomerCheckErrors(existingEvent, user, now) ==
  IF user.role # "CUSTOMER" THEN { }
  ELSE IF existingEvent.account_id # user.account_id
    THEN { "You can only update your own events." }
  ELSE IF existingEvent.start_time = Null \/ existingEvent.start_time - now < HoursInAdvance
    THEN { "You can only update events at least 24 hours in advance." }
  ELSE { }

\* updateEvent(eventId, updateData, user) at current time now.
updateEventAs(D, eventId, u, user, now) ==
  LET existingEvent == EventById(D.events, eventId)
      errors == CustomerCheckErrors(existingEvent, user, now)
  IN  IF existingEvent.event_id # Null /\ errors # { }
        THEN [ isValid |-> FALSE, errors |-> errors, db |-> D ]
        ELSE updateEvent(D, eventId, u)

\* updateEventController with req.user set by validateToken.
updateEventControllerAs(D, eventId, u, user, now) ==
  LET result == updateEventAs(D, eventId, u, user, now)
  IN  [ db |-> result.db,
        resp |-> [ op |-> "updateEvent",
                   code |-> IF result.isValid THEN 200 ELSE 400,
                   errors |-> result.errors,
                   event_id |-> eventId ] ]

\* Authenticated callers: the owner of account 1's events, and account 2 in
\* each role.
Users ==
  { [ account_id |-> 1, role |-> "CUSTOMER" ] }
  \cup { [ account_id |-> 2, role |-> r ] : r \in { "CUSTOMER", "PROVIDER", "STAFF", "ADMIN" } }

\* Current times 24 and 23 hours before instant 0.
Nows == { 0 - HoursInAdvance, 1 - HoursInAdvance }

OwnerCreateInputs ==
  { [ PlainCreateInput EXCEPT !.start_time = w[1], !.end_time = w[2], !.account_id = a ] :
    w \in { << 0, 1 >>, << 1, 2 >> }, a \in { 1, Null } }

OwnerUpdateInputs ==
  { [ NoUpdate EXCEPT !.status = "CONFIRMED" ],
    [ NoUpdate EXCEPT !.end_time = MaxTime ],
    [ NoUpdate EXCEPT !.estimated_cost = 7 ] }

\* PUT /events/:id by an authenticated caller.
UpdateEventAsRequest ==
  \E eventId \in 1 .. nextEventId, u \in OwnerUpdateInputs, user \in Users, now \in Nows :
    /\ Commit(updateEventControllerAs(CurDb, eventId, u, user, now).db)
    /\ last' = updateEventControllerAs(CurDb, eventId, u, user, now).resp
    /\ UNCHANGED reqs

NextOwner ==
  \/ CreateEventRequest(OwnerCreateInputs, MaxEvents)
  \/ UpdateEventAsRequest

SpecOwner == Init /\ [][NextOwner]_vars

\* ------------------------------------------------------------- listings
\* VALIDATION_CONFIG.PAGINATION.
DEFAULT_PAGE == 1
DEFAULT_LIMIT == 20
MAX_LIMIT == 100
MIN_PAGE == 1
MIN_LIMIT == 1

\* parseInt(req.query.x) || fallback: an absent parameter and 0 give the
\* fallback.
ParseIntOr(param, fallback) == IF param = Null \/ param = 0 THEN fallback ELSE param

\* validatePagination(page, limit) on integers: the errors, and the values
\* with the defaults standing in for 0.
validatePagination(page, limit) ==
  [ page |-> IF page = 0 THEN DEFAULT_PAGE ELSE page,
    limit |-> IF limit = 0 THEN DEFAULT_LIMIT ELSE limit,
    errors |->
      ( IF page < MIN_PAGE THEN { "Page out of range" } ELSE { } )
      \cup ( IF limit < MIN_LIMIT \/ limit > MAX_LIMIT THEN { "Limit out of range" } ELSE { } ) ]

\* Math.ceil(total / limit) for a positive limit.
CeilDiv(total, limit) == ( total + limit - 1 ) \div limit

\* The number of rows findMany returns for skip and a non-negative take.
RowCount(total, skip, take) ==
  IF total - skip <= 0 THEN 0 ELSE IF total - skip < take THEN total - skip ELSE take

NoQuery == [ skip |-> Null, take |-> Null ]

NoPagination == [ page |-> Null, limit |-> Null, totalCount |-> Null, hasNextPage |-> FALSE ]

ListResponse(op, code, query, items, pagination) ==
  [ op |-> op, code |-> code, errors |-> { }, event_id |-> Null, query |-> query,
    items |-> items, pagination |-> pagination ]

\* GET /events?page=&limit= with no filter: getAllEventsController and
\* getAllEvents.
getAllEvents(D, pageParam, limitParam) ==
  LET page == ParseIntOr(pageParam, DEFAULT_PAGE)
      limit == ParseIntOr(limitParam, DEFAULT_LIMIT)
      valid == validatePagination(page, limit)
      skip == ( valid.page - 1 ) * valid.limit
      totalCount == Cardinality(D.events)
  IN  IF valid.errors # { }
        THEN ListResponse("getAllEvents", 400, NoQuery, 0, NoPagination)
        ELSE ListResponse("getAllEvents", 200, [ skip |-> skip, take |-> valid.limit ],
                          RowCount(totalCount, skip, valid.limit),
                          [ page |-> valid.page, limit |-> valid.limit,
                            totalCount |-> totalCount,
                            hasNextPage |-> valid.page < CeilDiv(totalCount, valid.limit) ])

\* GET /rooms?page=&limit= with no filter: getAllRoomsController and
\* getAllRooms, which queries with the page and limit it was given.  The
\* database refuses a negative skip.
getAllRooms(pageParam, limitParam) ==
  LET page == ParseIntOr(pageParam, DEFAULT_PAGE)
      limit == ParseIntOr(limitParam, DEFAULT_LIMIT)
      skip == ( page - 1 ) * limit
      total == Cardinality({ r \in Rooms : r.is_active })
  IN  IF skip < 0
        THEN ListResponse("getAllRooms", 400, [ skip |-> skip, take |-> limit ], 0, NoPagination)
        ELSE ListResponse("getAllRooms", 200, [ skip |-> skip, take |-> limit ],
                          RowCount(total, skip, limit),
                          [ total |-> total, page |-> page, pageSize |-> limit,
                            totalPages |-> CeilDiv(total, limit) ])

\* Query parameters: absent, below the minimum, small, and around MAX_LIMIT.
PageParams == { Null, 0 - 1, 0, 1, 2, 3 }
LimitParams == { Null, 0, 1, 2, MAX_LIMIT, MAX_LIMIT + 1 }

ListEventsRequest ==
  \E pageParam \in PageParams, limitParam \in LimitParams :
    /\ last' = getAllEvents(CurDb, pageParam, limitParam)
    /\ UNCHANGED << db, reqs >>

ListRoomsRequest ==
  \E pageParam \in PageParams, limitParam \in LimitParams :
    /\ last' = getAllRooms(pageParam, limitParam)
    /\ UNCHANGED << db, reqs >>

NextList ==
  \/ CreateEventRequest(PaymentCreateInputs, MaxEvents)
  \/ ListEventsRequest
  \/ ListRoomsRequest

SpecList == Init /\ [][NextList]_vars

\* ------------------------------------------------------------- invoices
invoices_event_id_key_dropped(invs, event_id) == FALSE

\* The unique index on invoices(event_id): inserting a row for event_id
\* violates it when the event already has an invoice.
invoices_event_id_key(invs, event_id) == \E i \in invs : i.event_id = event_id

\* createInvoice(invoiceData) with no detail rows.
createInvoice(D, invoiceData) ==
  LET validationErrors == validateInvoiceData(invoiceData)
      event == EventById(D.events, invoiceData.event_id)
      invoice ==
        [ invoice_id |-> D.nextInvoiceId, event_id |-> invoiceData.event_id,
          total_amount |-> invoiceData.total_amount,
          status |-> IF invoiceData.status = "UNSET" THEN "PENDING" ELSE invoiceData.status,
          account_id |-> IF Truthy(invoiceData.account_id) THEN invoiceData.account_id ELSE Null ]
      fail(errors) == [ isValid |-> FALSE, errors |-> errors, db |-> D ]
  IN  IF validationErrors # { } THEN fail(validationErrors)
      ELSE IF event.event_id = Null \/ event.status = "CANCELLED"
        THEN fail({ "Event not found or cancelled" })
      ELSE IF Truthy(invoiceData.account_id) /\ invoiceData.account_id \notin Accounts
        THEN fail({ "Account not found" })
      ELSE IF invoiceData.total_amount = Null \/ invoices_event_id_key(D.invoices, invoiceData.event_id)
        THEN fail({ "database error" })
      ELSE [ isValid |-> TRUE, errors |-> { },
             db |-> [ D EXCEPT !.invoices = @ \cup { invoice }, !.nextInvoiceId = @ + 1 ] ]

\* Events with and without a cost: room 1, the free room 2, room 2 with a
\* base cost, room 2 with a booked service.
InvoiceCreateInputs ==
  { PlainCreateInput,
    [ PlainCreateInput EXCEPT !.room_id = 2 ],
    [ PlainCreateInput EXCEPT !.room_id = 2, !.estimated_cost = 5 ],
    [ PlainCreateInput EXCEPT !.room_id = 2, !.service_variants = << Variant(1, 1) >> ] }

InvoiceUpdateInputs ==
  { [ NoUpdate EXCEPT !.estimated_cost = 7 ] }

CreateInvoiceInputs ==
  { [ event_id |-> e, account_id |-> 1, total_amount |-> 5, status |-> "UNSET" ] :
    e \in 1 .. MaxEvents }

\* POST /invoices.
CreateInvoiceRequest ==
  \E invoiceData \in CreateInvoiceInputs :
    LET result == createInvoice(CurDb, invoiceData)
    IN  /\ Commit(result.db)
        /\ last' = [ op |-> "createInvoice", code |-> IF result.isValid THEN 201 ELSE 400,
                     errors |-> result.errors, event_id |-> invoiceData.event_id ]
        /\ UNCHANGED reqs

\* Events created, updated and deleted, and invoices created by hand.
NextInvoice ==
  \/ CreateEventRequest(InvoiceCreateInputs, MaxEvents)
  \/ UpdateEventRequest(InvoiceUpdateInputs)
  \/ DeleteEventRequest
  \/ CreateInvoiceRequest

SpecInvoice == Init /\ [][NextInvoice]_vars

\* ------------------------------------------- services and their variations
\* Bookings of variation 1 or 2 of service 1, by the event and directly.
VariationCreateInputs ==
  { PlainCreateInput, [ PlainCreateInput EXCEPT !.service_variants = << Variant(1, 1) >> ] }

VariationEventServiceInputs ==
  { [ PlainEventServiceInput EXCEPT !.variation_id = v, !.scheduled_time = s ] :
    v \in { Null, 1, 2, 3 }, s \in { 0, 1 } }

\* Updates of a booked service: another service, another variation, both.
VariationEventServiceUpdates ==
  { [ NoEventServiceUpdate EXCEPT !.service_id = sv, !.variation_id = v ] :
    sv \in { 1, 3 }, v \in { Null, 2, 3 } }

VariationUpdateInputs ==
  { [ NoUpdate EXCEPT !.service_id = sv, !.variation_id = v ] : sv \in { 1, 3 }, v \in { 1, 3 } }

NextVariation ==
  \/ CreateEventRequest(VariationCreateInputs, MaxWorkflowEvents)
  \/ UpdateEventRequest(VariationUpdateInputs)
  \/ CreateEventServiceRequest(VariationEventServiceInputs)
  \/ UpdateEventServiceRequest(VariationEventServiceUpdates)

SpecVariation == Init /\ [][NextVariation]_vars

\* ----------------------------------------------------- availability checks
\* GET /rooms/:id/availability: checkRoomAvailabilityController.
checkRoomAvailabilityController(D, id, start_time, end_time, duration_hours) ==
  LET result == checkRoomAvailability(D.events, id, start_time, end_time, duration_hours)
  IN  [ op |-> "checkRoomAvailability", code |-> IF result.isValid THEN 200 ELSE 400,
        errors |-> IF result.isValid THEN { }
                   ELSE IF ~Given(start_time) \/ ~Given(end_time)
                     THEN { "start_time and end_time are required" }
                   ELSE { "Provided Date object is invalid" },
        event_id |-> Null, isAvailable |-> result.isAvailable ]

\* POST /event-services/check-availability: checkVariationAvailabilityController.
checkVariationAvailabilityController(variation_id, scheduled_time, duration_hours) ==
  LET result == checkVariationAvailability(variation_id, scheduled_time, duration_hours)
  IN  [ op |-> "checkVariationAvailability", code |-> IF result.isValid THEN 200 ELSE 400,
        errors |-> IF result.isValid THEN { } ELSE { result.error },
        event_id |-> Null, isAvailable |-> result.isValid ]

\* Room ids of the path: the three rooms and an id no room has.
RoomIdParams == { 1, 2, 3, 4 }

\* Instants of a request: absent, unparseable, or an instant.
DateParams == { Null, InvalidDate, 0, 1, 2 }

\* Durations of a request: absent, zero, negative, one hour.
DurationParams == { Null, 0, -2, 1 }

VariationIdParams == { Null, 1, 3, 4 }

CheckRoomAvailabilityRequest ==
  \E id \in RoomIdParams, start_time \in DateParams, end_time \in DateParams,
     duration_hours \in DurationParams :
    /\ last' = checkRoomAvailabilityController(CurDb, id, start_time, end_time,
                                               duration_hours)
    /\ Commit(CurDb)
    /\ UNCHANGED reqs

CheckVariationAvailabilityRequest ==
  \E variation_id \in VariationIdParams, scheduled_time \in DateParams,
     duration_hours \in DurationParams :
    /\ last' = checkVariationAvailabilityController(variation_id, scheduled_time,
                                                    duration_hours)
    /\ Commit(CurDb)
    /\ UNCHANGED reqs

NextAvailability ==
  \/ CreateEventRequest(BookingCreateInputs, MaxEvents)
  \/ CheckRoomAvailabilityRequest
  \/ CheckVariationAvailabilityRequest

SpecAvailability == Init /\ [][NextAvailability]_vars

\* ------------------------------------------------- payments of two callers
\* The update deletePayment sends to the invoice: { status: 'PENDING', paid_at: null }.
PendingUpdate == [ event_id |-> Null, total_amount |-> Null, status |-> "PENDING" ]

\* deletePayment: the delete and the invoice update are one transaction; a
\* failed invoice update throws and rolls the delete back.  hasAccountId tells
\* whether the returned data has an account_id: it is { payment_id } only.
deletePayment(D, paymentId) ==
  LET existingPayment == PaymentById(D.payments, paymentId)
      deleted == [ D EXCEPT !.payments = @ \ { existingPayment } ]
      invoiceUpdate == updateInvoice(deleted, existingPayment.invoice_id, PendingUpdate)
      fail(errors) == [ isValid |-> FALSE, errors |-> errors, db |-> D, hasAccountId |-> FALSE ]
  IN  IF existingPayment.payment_id = Null THEN fail({ "Payment not found" })
      ELSE IF Truthy(existingPayment.invoice_id)
        THEN IF invoiceUpdate.isValid
               THEN [ isValid |-> TRUE, errors |-> { }, db |-> invoiceUpdate.db,
                      hasAccountId |-> FALSE ]
               ELSE fail({ "Failed to update invoice" })
      ELSE [ isValid |-> TRUE, errors |-> { }, db |-> deleted, hasAccountId |-> FALSE ]

\* DELETE /payments/:id: the ownership test comes after the delete is
\* committed and reads result.data.account_id.
deletePaymentController(D, caller, paymentId) ==
  LET result == deletePayment(D, paymentId)
  IN  [ db |-> result.db,
        resp |-> [ op |-> "deletePayment",
                   code |-> IF ~ result.isValid THEN 404
                            ELSE IF ~ result.hasAccountId THEN 403
                            ELSE 200,
                   errors |-> result.errors, event_id |-> Null ] ]

\* Bodies of PUT /payments/:id that leave the payment's account as it is.
PaymentOwnerUpdates ==
  { [ event_id |-> Null, account_id |-> Null, status |-> st, invoice_id |-> inv,
      stripe_payment_id |-> Null ] :
    st \in { "COMPLETED", "FAILED" }, inv \in { Null, 1 } }

UpdatePaymentAsRequest ==
  \E caller \in Accounts, paymentId \in 1 .. nextPaymentId, body \in PaymentOwnerUpdates :
    /\ Commit(updatePaymentController(CurDb, caller, paymentId, body).db)
    /\ last' = updatePaymentController(CurDb, caller, paymentId, body).resp
    /\ UNCHANGED reqs

DeletePaymentRequest ==
  \E caller \in Accounts, paymentId \in 1 .. nextPaymentId :
    /\ Commit(deletePaymentController(CurDb, caller, paymentId).db)
    /\ last' = deletePaymentController(CurDb, caller, paymentId).resp
    /\ UNCHANGED reqs

NextPaymentOwner ==
  \/ CreateEventRequest(PaymentCreateInputs, MaxEvents)
  \/ CreatePaymentRequest(CreatePaymentInputs)
  \/ UpdatePaymentAsRequest
  \/ DeletePaymentRequest

SpecPaymentOwner == Init /\ [][NextPaymentOwner]_vars

\* ------------------------------------------------------ invoice numbers
\* Milliseconds the clock is followed for.
MaxClock == 2

\* Date.now() advances by a millisecond.
Tick ==
  /\ clock < MaxClock
  /\ clock' = clock + 1
  /\ UNCHANGED << events, eventServices, invoices, invoiceDetails, nextEventId,
                  nextInvoiceId, payments, reviews, nextPaymentId, nextReviewId,
                  last, reqs, invoiceNumbers, attempts >>

\* invoices_invoice_number_key: no invoice has this invoice_number yet.
invoices_invoice_number_key(numbers, invoice_number) ==
  \A n \in numbers : n.invoice_number # invoice_number

\* The writes of innerCreateEvent with the invoice number INV-<Date.now()>
\* read at the invoice insert: an insert that violates the unique index
\* throws, the transaction is rolled back and handleError returns the message.
InsertCreateEventAt ==
  \E i \in 1 .. MaxRequests :
    LET result == innerCreateEventWrites(CurDb, reqs[i].d)
        createsInvoice == result.isValid /\ result.db.nextInvoiceId # nextInvoiceId
        unique == invoices_invoice_number_key(invoiceNumbers, clock)
    IN  /\ reqs[i].kind = "createEvent"
        /\ reqs[i].pc = "insert"
        /\ clock' = clock
        /\ attempts' = attempts
        /\ IF createsInvoice /\ ~ unique
             THEN /\ CommitTables(CurDb)
                  /\ invoiceNumbers' = invoiceNumbers
                  /\ Finish(i, [ op |-> "createEvent", code |-> 400,
                                 errors |-> { "Unique constraint failed on the fields: (invoice_number)" },
                                 event_id |-> Null ])
             ELSE /\ CommitTables(result.db)
                  /\ invoiceNumbers' =
                       IF createsInvoice
                         THEN invoiceNumbers
                              \cup { [ invoice_id |-> nextInvoiceId, invoice_number |-> clock ] }
                         ELSE invoiceNumbers
                  /\ Finish(i, [ op |-> "createEvent",
                                 code |-> IF result.isValid THEN 201 ELSE 400,
                                 errors |-> result.errors,
                                 event_id |-> result.data.event_id ])

\* Two bookings that are valid on their own: different rooms, a cost above 0,
\* no status and no services.
InvoiceNumberCreateInputs ==
  { PlainCreateInput, [ PlainCreateInput EXCEPT !.room_id = 2, !.estimated_cost = 7 ] }

\* Bookings in flight at once, and the clock.
NextInvoiceNumber ==
  \/ BeginCreateEvent(InvoiceNumberCreateInputs)
  \/ CheckCreateEvent
  \/ InsertCreateEventAt
  \/ Retire
  \/ Tick

SpecInvoiceNumber == Init /\ [][NextInvoiceNumber]_vars

\* ------------------------------------------------- rate-limited middleware
\* The middleware is built with validateTokenWithRateLimit(maxAttempts, windowMs).
maxAttempts == 2
windowMs == 1

\* Failed attempts of one entry the model follows.
MaxFailures == 3

\* One call of the middleware at time now for a request of clientIp whose
\* Authorization header is absent ("none"), carries a token jwt.verify
\* rejects ("invalid") or one it accepts ("valid").  called tells whether
\* next() ran; code 0 is no response sent by the middleware.
validateTokenWithRateLimit(att, now, clientIp, token) ==
  LET cleaned ==
        [ ip \in ClientIps |->
            IF att[ip].present /\ now - att[ip].firstAttempt > windowMs
              THEN NoAttempts ELSE att[ip] ]
      clientAttempts ==
        IF cleaned[clientIp].present THEN cleaned[clientIp]
        ELSE [ present |-> TRUE, count |-> 0, firstAttempt |-> now ]
      failed == [ cleaned EXCEPT ![clientIp] = [ clientAttempts EXCEPT !.count = @ + 1 ] ]
      reply(code, errors, called) ==
        [ op |-> "validateTokenWithRateLimit", code |-> code, errors |-> errors,
          event_id |-> Null, called |-> called ]
  IN  IF token = "none"
        THEN [ attempts |-> failed, resp |-> reply(401, { "Access denied. No token provided." }, FALSE) ]
      ELSE IF token = "valid"
        THEN [ attempts |-> [ cleaned EXCEPT ![clientIp] = NoAttempts ],
               resp |-> reply(0, { }, TRUE) ]
      ELSE [ attempts |-> failed, resp |-> reply(401, { "Access denied. Invalid or expired token." }, FALSE) ]

Tokens == { "none", "invalid", "valid" }

\* A request passes through the middleware.
RateLimitedRequest ==
  \E clientIp \in ClientIps, token \in Tokens :
    /\ validateTokenWithRateLimit(attempts, clock, clientIp, token).attempts[clientIp].count
         <= MaxFailures
    /\ attempts' = validateTokenWithRateLimit(attempts, clock, clientIp, token).attempts
    /\ last' = validateTokenWithRateLimit(attempts, clock, clientIp, token).resp
    /\ UNCHANGED << events, eventServices, invoices, invoiceDetails, nextEventId,
                    nextInvoiceId, payments, reviews, nextPaymentId, nextReviewId,
                    reqs, clock, invoiceNumbers >>

NextRateLimit ==
  \/ RateLimitedRequest
  \/ Tick

SpecRateLimit == Init /\ [][NextRateLimit]_vars

\* ================================================================ claims
Booked(e) == e.status \in { "CONFIRMED", "IN_PROGRESS" }

\* [start, end) of a and of b have an instant in common.
WindowsOverlap(aStart, aEnd, bStart, bEnd) ==
  /\ aStart # Null /\ aEnd # Null /\ bStart # Null /\ bEnd # Null
  /\ aStart < bEnd
  /\ bStart < aEnd

\* C1: no two distinct events on the same room that are both CONFIRMED or
\* IN_PROGRESS have overlapping half-open windows [start_time, end_time).
C1_NoOverlappingRoomBookings ==
  \A a \in events : \A b \in events :
    ( /\ a.event_id # b.event_id
      /\ a.room_id = b.room_id
      /\ Booked(a)
      /\ Booked(b) )
    => ~WindowsOverlap(a.start_time, a.end_time, b.start_time, b.end_time)

\* C5: a createEvent for a room and window that intersects the window of an
\* event booked earlier on that room through createEvent is rejected and stores
\* no event: no successful createEvent leaves its new event beside an earlier
\* event of the same room with an intersecting window.
C5_OverlappingCreateIsRejected ==
  ~ ( /\ last.op = "createEvent"
      /\ last.code = 201
      /\ \E new \in events : \E a \in events :
           /\ new.event_id = last.event_id
           /\ a.event_id < new.event_id
           /\ a.room_id = new.room_id
           /\ WindowsOverlap(a.start_time, a.end_time, new.start_time, new.end_time) )

\* The booking requests that are valid but for the room's availability.
WellFormedBookingInputs ==
  { d \in BookingCreateInputs :
      /\ d.room_id \in { 1, 2 }
      /\ d.start_time < d.end_time
      /\ d.status \in { "UNSET", "CONFIRMED" }
      /\ d.estimated_cost = Null
      /\ d.account_id = 1 }

\* The step is POST /events handling request d.
HandlesCreate(d) ==
  /\ last'.op = "createEvent"
  /\ last' = createEventController(CurDb, d).resp
  /\ Commit(createEventController(CurDb, d).db)

\* C6: a well-formed booking request is answered with the conflict error
\* exactly when some CONFIRMED or IN_PROGRESS event of the same room has
\* start_time < requested end and end_time > requested start; otherwise it
\* succeeds and the event is stored with the requested window.  A request that
\* only touches an existing booking's boundary therefore succeeds.
C6_HalfOpenRoomConflict ==
  [][ \A d \in WellFormedBookingInputs :
        HandlesCreate(d)
        => LET conflict ==
                 \E e \in events :
                   /\ e.room_id = d.room_id
                   /\ Booked(e)
                   /\ e.start_time < d.end_time
                   /\ e.end_time > d.start_time
           IN  /\ conflict <=> ( last'.code = 400 /\ last'.errors = { "Conflict" } )
               /\ ~conflict <=>
                    ( /\ last'.code = 201
                      /\ \E new \in events' \ events :
                           /\ new.event_id = last'.event_id
                           /\ new.room_id = d.room_id
                           /\ new.start_time = d.start_time
                           /\ new.end_time = d.end_time ) ]_vars

\* C6 witness: a booking that starts where a CONFIRMED or IN_PROGRESS booking
\* of the same room ends has just been created.
C6_Witness ==
  /\ last.op = "createEvent"
  /\ last.code = 201
  /\ \E new \in events : \E e \in events :
       /\ new.event_id = last.event_id
       /\ e.event_id # new.event_id
       /\ e.room_id = new.room_id
       /\ Booked(e)
       /\ e.end_time = new.start_time

\* The window [scheduled_time, scheduled_time + duration_hours) of a booked
\* service is known.
HasWindow(row) == row.scheduled_time # Null /\ row.duration_hours # Null

\* C2: no two distinct EventService rows with status CONFIRMED on the same
\* variation have overlapping windows
\* [scheduled_time, scheduled_time + duration_hours).
C2_NoOverlappingVariationBookings ==
  \A i \in 1 .. Len(eventServices) : \A j \in 1 .. Len(eventServices) :
    ( /\ i # j
      /\ eventServices[i].status = "CONFIRMED"
      /\ eventServices[j].status = "CONFIRMED"
      /\ eventServices[i].variation_id # Null
      /\ eventServices[i].variation_id = eventServices[j].variation_id
      /\ HasWindow(eventServices[i])
      /\ HasWindow(eventServices[j]) )
    => ~WindowsOverlap(
          eventServices[i].scheduled_time,
          eventServices[i].scheduled_time + eventServices[i].duration_hours,
          eventServices[j].scheduled_time,
          eventServices[j].scheduled_time + eventServices[j].duration_hours)

\* The four tables are as they were before the step.
TablesUnchanged ==
  /\ events' = events
  /\ eventServices' = eventServices
  /\ invoices' = invoices
  /\ invoiceDetails' = invoiceDetails

\* The step is PUT /events/:id handling update u of event eventId.
HandlesUpdate(eventId, u) ==
  /\ last'.op = "updateEvent"
  /\ last' = updateEventController(CurDb, eventId, u).resp
  /\ Commit(updateEventController(CurDb, eventId, u).db)

\* The writes of the create workflow that come after the event insert.
WritesAfterEventInsert ==
  { "invoice", "roomDetail", "eventService", "serviceDetail", "costUpdate" }

\* C7: when a write of the create-event workflow fails after the event row
\* was inserted (the request passed every check and did not succeed), the
\* database afterwards holds no Event, EventService, Invoice or InvoiceDetail
\* of that attempt: the four tables are as before the request.
C7_FailedCreateLeavesNothing ==
  [][ \A d \in WorkflowCreateInputs :
        ( /\ HandlesCreate(d)
          /\ d.fault \in WritesAfterEventInsert
          /\ innerCreateEventErrors(events, d) = { }
          /\ last'.code # 201 )
        => TablesUnchanged ]_vars

\* Some pair of the request names an inactive or unknown service, or a
\* variation that is unknown, inactive or of another service.
HasInvalidPair(variants) ==
  \E i \in 1 .. Len(variants) :
    \/ ServiceById(variants[i].service_id).service_id = Null
    \/ ~ServiceById(variants[i].service_id).is_active
    \/ VariationById(variants[i].variant_id).variation_id = Null
    \/ ~VariationById(variants[i].variant_id).is_active
    \/ VariationById(variants[i].variant_id).service_id # variants[i].service_id

\* C8: a create-event or update-event request that fails input validation,
\* reference validation or an availability check (an inactive or mismatched
\* service/variation pair included) is answered with a non-empty list of
\* error messages and leaves the four tables unchanged.
C8_RejectedRequestWritesNothing ==
  [][ /\ \A d \in WorkflowCreateInputs :
           ( /\ HandlesCreate(d)
             /\ d.fault = "none"
             /\ ( \/ innerCreateEventErrors(events, d) # { }
                  \/ HasInvalidPair(d.service_variants) ) )
           => ( /\ last'.code = 400
                /\ last'.errors # { }
                /\ TablesUnchanged )
      /\ \A eventId \in 1 .. MaxWorkflowEvents + 1 : \A u \in WorkflowUpdateInputs :
           ( /\ HandlesUpdate(eventId, u)
             /\ u.fault = "none"
             /\ last'.code # 200 )
           => ( /\ last'.code = 400
                /\ last'.errors # { }
                /\ TablesUnchanged ) ]_vars

\* C9: after a successful create-event or update-event request the invoice
\* of the event, when one exists, has total_amount equal to the event's
\* stored estimated_cost.
C9_InvoiceTotalEqualsEstimatedCost ==
  ( /\ last.op \in { "createEvent", "updateEvent" }
    /\ last.code \in { 200, 201 } )
  => \A i \in invoices :
       i.event_id = last.event_id
       => i.total_amount = EventById(events, last.event_id).estimated_cost

\* The cost formula: base (default 0) + room base_price (0 if none)
\* + hourly_rate * durationHours (when both are present)
\* + the sum over the booked pairs of variation.base_price * 1 (the two
\* workflows book every pair with quantity 1 and no custom price).
RECURSIVE SumVariationPrices(_)
SumVariationPrices(variation_ids) ==
  IF variation_ids = << >> THEN 0
  ELSE VariationById(Head(variation_ids)).base_price
       + SumVariationPrices(Tail(variation_ids))

FormulaCost(base, room_id, durationHours, variation_ids) ==
  ( IF base # Null THEN base ELSE 0 )
  + ( IF room_id # Null /\ RoomById(room_id).base_price # Null
        THEN RoomById(room_id).base_price ELSE 0 )
  + ( IF room_id # Null /\ RoomById(room_id).hourly_rate # Null /\ durationHours # Null
        THEN RoomById(room_id).hourly_rate * durationHours ELSE 0 )
  + SumVariationPrices(variation_ids)

VariantIds(variants) == [ i \in 1 .. Len(variants) |-> variants[i].variant_id ]

\* C10: the estimated cost stored by a successful create, and by a
\* successful update that books a variation, is the value of the cost formula
\* for the event's room and duration and the booked variations.
C10_EstimatedCostFormula ==
  [][ /\ \A d \in WorkflowCreateInputs :
           ( HandlesCreate(d) /\ last'.code = 201 )
           => EventById(events', last'.event_id).estimated_cost
                = FormulaCost(d.estimated_cost, d.room_id,
                              DurationHours(d.start_time, d.end_time),
                              VariantIds(d.service_variants))
      /\ \A eventId \in 1 .. MaxWorkflowEvents + 1 : \A u \in WorkflowUpdateInputs :
           ( /\ HandlesUpdate(eventId, u)
             /\ last'.code = 200
             /\ u.service_id # Null
             /\ u.variation_id # Null )
           => LET e == EventById(events', eventId)
              IN  e.estimated_cost
                    = FormulaCost(u.estimated_cost, e.room_id,
                                  DurationHours(e.start_time, e.end_time),
                                  << u.variation_id >>) ]_vars

\* The (variation, scheduled_time, duration_hours) bookings a request attempts.
AttemptedBookings(r) ==
  IF r.kind = "createEventService"
    THEN { << r.d.variation_id, r.d.scheduled_time, r.d.duration_hours >> }
  ELSE IF r.kind = "createEvent"
    THEN { << r.d.service_variants[k].variant_id, r.d.start_time,
              DurationHours(r.d.start_time, r.d.end_time) >> :
           k \in 1 .. Len(r.d.service_variants) }
  ELSE { }

\* The requests of slots i and j were in flight at the same time.
Concurrent(i, j) == j \in reqs[i].with \/ i \in reqs[j].with

Succeeded(r) == r.resp.code = 201

\* The reply is the refusal of a booking for a conflict.
ConflictReply(r) ==
  /\ r.resp.code \notin { 0, 201 }
  /\ r.resp.errors \cap { "Variation is busy during the requested time slot",
                          "Variation is not available", "Conflict" } # { }

\* C3: of two concurrent requests that attempt to book the same variation for
\* the identical window, and that fail for no other reason, exactly one
\* succeeds and the other receives a conflict error.
C3_ConcurrentVariationBooking ==
  \A i \in 1 .. MaxRequests : \A j \in 1 .. MaxRequests :
    ( /\ i < j
      /\ reqs[i].pc = "done"
      /\ reqs[j].pc = "done"
      /\ Concurrent(i, j)
      /\ AttemptedBookings(reqs[i]) \cap AttemptedBookings(reqs[j]) # { }
      /\ Succeeded(reqs[i]) \/ ConflictReply(reqs[i])
      /\ Succeeded(reqs[j]) \/ ConflictReply(reqs[j]) )
    => ( \/ Succeeded(reqs[i]) /\ ConflictReply(reqs[j])
         \/ Succeeded(reqs[j]) /\ ConflictReply(reqs[i]) )

\* The request of slot i books its room: it passed the availability check,
\* has not inserted yet, and asks for a CONFIRMED event.
PastCheckBeforeInsert(i) ==
  /\ reqs[i].kind = "createEvent"
  /\ reqs[i].pc = "insert"
  /\ reqs[i].d.status = "CONFIRMED"

\* C4: for two concurrent event bookings on the same room with overlapping
\* windows, no interleaving has both requests past the availability check
\* before either has inserted, and no two booked events of the same room end
\* up with overlapping windows.
C4_RoomCheckAndInsertSerialized ==
  /\ \A i \in 1 .. MaxRequests : \A j \in 1 .. MaxRequests :
       ( /\ i # j
         /\ PastCheckBeforeInsert(i)
         /\ PastCheckBeforeInsert(j)
         /\ reqs[i].d.room_id = reqs[j].d.room_id )
       => ~WindowsOverlap(reqs[i].d.start_time, reqs[i].d.end_time,
                          reqs[j].d.start_time, reqs[j].d.end_time)
  /\ \A a \in events : \A b \in events :
       ( a.event_id # b.event_id /\ a.room_id = b.room_id /\ Booked(a) /\ Booked(b) )
       => ~WindowsOverlap(a.start_time, a.end_time, b.start_time, b.end_time)

\* The tables before any request.
EmptyDb ==
  [ events |-> { }, eventServices |-> << >>, invoices |-> { }, invoiceDetails |-> << >>,
    nextEventId |-> 1, nextInvoiceId |-> 1, payments |-> { }, reviews |-> { },
    nextPaymentId |-> 1, nextReviewId |-> 1 ]

\* The estimated cost a create request stores when it runs on database D.
StoredCost(D, d) ==
  EventById(createEventController(D, d).db.events,
            createEventController(D, d).resp.event_id).estimated_cost

WithoutLastItem(d) ==
  [ d EXCEPT !.service_variants = SubSeq(@, 1, Len(@) - 1) ]

\* Booked items with valid prices and quantities (custom_price >= 0,
\* quantity >= 1 when given).
CostItems ==
  [ variation_id : { Null, 1 }, custom_price : { Null, 0, 4 }, quantity : { Null, 2 } ]

\* C11: the estimated cost is deterministic and monotone.  A successful
\* create stores the total that the same request yields on any other database
\* state (here the empty one), and that total is never smaller than the total
\* of the same request without its last booked item; the item sum of the
\* earlier createEvent never shrinks when an item is appended.
C11_CostDeterministicAndMonotone ==
  [][ /\ \A d \in CostCreateInputs :
           ( HandlesCreate(d) /\ last'.code = 201 )
           => /\ StoredCost(CurDb, d) = StoredCost(EmptyDb, d)
              /\ EventById(events', last'.event_id).estimated_cost = StoredCost(CurDb, d)
              /\ d.service_variants # << >>
                 => /\ createEventController(CurDb, WithoutLastItem(d)).resp.code = 201
                    /\ StoredCost(CurDb, WithoutLastItem(d)) <= StoredCost(CurDb, d)
      /\ \A item \in CostItems : \A other \in CostItems :
           /\ eventServicesCost(<< item >>) >= eventServicesCost(<< >>)
           /\ eventServicesCost(<< other, item >>) >= eventServicesCost(<< other >>) ]_vars

\* C11 witness: a second event has been created with a booked service, so
\* its total was compared with the total without the service and with the
\* total on the empty database.
C11_Witness ==
  /\ last.op = "createEvent"
  /\ last.code = 201
  /\ last.event_id = 2
  /\ \E i \in 1 .. Len(eventServices) : eventServices[i].event_id = 2

\* The status of event eventId after toggleEventStatus ran twice in a row on
\* the current tables.
StatusAfterTwoToggles(eventId) ==
  EventById(toggleEventStatus(toggleEventStatus(CurDb, eventId).db, eventId).db.events,
            eventId).status

\* C12: for every existing event, whatever its status, two calls of
\* toggleEventStatus in a row return the event to the status it had.
C12_ToggleTwiceRestoresStatus ==
  \A e \in events : StatusAfterTwoToggles(e.event_id) = e.status

\* The step is PATCH /events/:id/status asking for status on event eventId.
HandlesSetStatus(eventId, status) ==
  /\ last'.op = "updateEventStatus"
  /\ last' = updateEventStatusController(CurDb, eventId, status).resp
  /\ Commit(updateEventStatusController(CurDb, eventId, status).db)

\* C13: the set-status operation changes an event's status only when the
\* current status is CONFIRMED and the requested status is CONFIRMED,
\* IN_PROGRESS, CANCELLED or COMPLETED, and then stores the requested status;
\* every other request is rejected and leaves the events as they were.
C13_SetStatusOnlyFromConfirmed ==
  [][ \A eventId \in 1 .. MaxEvents + 1 :
        \A status \in { "UNSET", "PENDING", "CONFIRMED", "IN_PROGRESS", "CANCELLED",
                        "COMPLETED" } :
          HandlesSetStatus(eventId, status)
          => LET e == EventById(events, eventId)
             IN  IF /\ e.event_id # Null
                    /\ e.status = "CONFIRMED"
                    /\ status \in { "CONFIRMED", "IN_PROGRESS", "CANCELLED", "COMPLETED" }
                   THEN /\ last'.code = 200
                        /\ events' = ( events \ { e } ) \cup { [ e EXCEPT !.status = status ] }
                   ELSE /\ last'.code \in { 400, 404 }
                        /\ events' = events ]_vars

\* C13 witness: a set-status request moved a CONFIRMED event to IN_PROGRESS.
C13_Witness ==
  /\ last.op = "updateEventStatus"
  /\ last.code = 200
  /\ EventById(events, last.event_id).status = "IN_PROGRESS"

\* C14: a payment that is COMPLETED has its invoice PAID and its event
\* CONFIRMED in the same committed state; no COMPLETED payment has an invoice
\* that is still PENDING.
C14_CompletedPaymentPaysInvoice ==
  \A p \in payments :
    p.payment_status = "COMPLETED"
    => /\ Truthy(p.invoice_id) => InvoiceById(invoices, p.invoice_id).status = "PAID"
       /\ Truthy(p.event_id) => EventById(events, p.event_id).status = "CONFIRMED"

\* The step is DELETE /events/:id handling event eventId with the given flag.
HandlesDelete(eventId, forceDelete) ==
  /\ last'.op = "deleteEvent"
  /\ last' = deleteEventController(CurDb, eventId, forceDelete).resp
  /\ Commit(deleteEventController(CurDb, eventId, forceDelete).db)

\* Event eventId exists and some event service, invoice, payment or review
\* row refers to it.
HasDependentRow(eventId) ==
  /\ \E e \in events : e.event_id = eventId
  /\ \/ \E i \in 1 .. Len(eventServices) : eventServices[i].event_id = eventId
     \/ \E inv \in invoices : inv.event_id = eventId
     \/ \E p \in payments : p.event_id = eventId
     \/ \E r \in reviews : r.event_id = eventId

\* C15: deleting, without forceDelete, an event that has an event service, an
\* invoice, a payment or a review is rejected with the counts of its
\* dependent rows, and no table changes.
C15_DeleteWithDependentsIsRejected ==
  [][ \A eventId \in 1 .. MaxEvents + 1 :
        HandlesDelete(eventId, FALSE) /\ HasDependentRow(eventId)
        => /\ last'.code = 400
           /\ last'.data.eventServicesCount
                = Cardinality({ i \in 1 .. Len(eventServices) : eventServices[i].event_id = eventId })
           /\ last'.data.paymentsCount = Cardinality({ p \in payments : p.event_id = eventId })
           /\ last'.data.reviewsCount = Cardinality({ r \in reviews : r.event_id = eventId })
           /\ last'.data.hasInvoice = ( \E inv \in invoices : inv.event_id = eventId )
           /\ UNCHANGED db ]_vars

\* A delete was rejected for an event whose only dependent row is its invoice.
C15_Witness ==
  /\ last.op = "deleteEvent"
  /\ last.code = 400
  /\ last.data = [ eventServicesCount |-> 0, paymentsCount |-> 0, reviewsCount |-> 0,
                   hasInvoice |-> TRUE ]
  /\ \E e \in events : e.event_id = last.event_id

\* The invoice ids of event eventId.
InvoiceIdsOf(invs, eventId) == { inv.invoice_id : inv \in { i \in invs : i.event_id = eventId } }

\* C16: a forced delete of an existing event succeeds and leaves no event,
\* event service, payment, review, invoice or invoice detail of that event;
\* the rows of the other events are as they were.
C16_ForceDeleteRemovesEventAndDependents ==
  [][ \A eventId \in 1 .. MaxEvents + 1 :
        HandlesDelete(eventId, TRUE) /\ ( \E e \in events : e.event_id = eventId )
        => /\ last'.code = 200
           /\ events' = { e \in events : e.event_id # eventId }
           /\ eventServices' = SelectSeq(eventServices, LAMBDA es : es.event_id # eventId)
           /\ payments' = { p \in payments : p.event_id # eventId }
           /\ reviews' = { r \in reviews : r.event_id # eventId }
           /\ invoices' = { inv \in invoices : inv.event_id # eventId }
           /\ invoiceDetails'
                = SelectSeq(invoiceDetails,
                            LAMBDA det : det.invoice_id \notin InvoiceIdsOf(invoices, eventId)) ]_vars

\* The step is PUT /events/:id by user at time now, updating event eventId.
HandlesUpdateAs(eventId, u, user, now) ==
  /\ last'.op = "updateEvent"
  /\ last' = updateEventControllerAs(CurDb, eventId, u, user, now).resp
  /\ Commit(updateEventControllerAs(CurDb, eventId, u, user, now).db)

\* C17: an update by a caller who is neither staff nor admin is applied only
\* if the caller owns the event and the event starts at least 24 hours after
\* the current time; otherwise it is rejected and nothing changes.
C17_UnprivilegedUpdateNeedsOwnerAndAdvance ==
  [][ \A eventId \in 1 .. MaxEvents, u \in OwnerUpdateInputs, user \in Users, now \in Nows :
        LET e == EventById(events, eventId)
        IN  /\ HandlesUpdateAs(eventId, u, user, now)
            /\ user.role \notin { "STAFF", "ADMIN" }
            /\ e.event_id # Null
            /\ ~ ( /\ e.account_id = user.account_id
                   /\ e.start_time # Null
                   /\ e.start_time - now >= HoursInAdvance )
            => last'.code = 400 /\ UNCHANGED db ]_vars

\* C18: a listing never queries with a limit outside [1, 100] or a page
\* below 1; an accepted listing returns at most limit items and reports
\* hasNextPage exactly when page * limit < totalCount.
C18_ListingPagination ==
  last.op \in { "getAllEvents", "getAllRooms" }
  => /\ last.query # NoQuery
        => /\ last.query.take >= MIN_LIMIT
           /\ last.query.take <= MAX_LIMIT
           /\ last.query.skip >= 0
     /\ last.code = 200 => last.items <= last.query.take
     /\ last.code = 200 /\ "hasNextPage" \in DOMAIN last.pagination
        => last.pagination.hasNextPage
             = ( last.pagination.page * last.pagination.limit < last.pagination.totalCount )

\* C19: an event stored by the create operation has status PENDING right
\* after its creation, whatever the request carries.
C19_CreatedEventIsPending ==
  [][ \A d \in BookingCreateInputs :
        HandlesCreate(d) /\ last'.code = 201
        => EventById(events', last'.event_id).status = "PENDING" ]_vars

\* The cost createEvent computes for request d: the caller's base, the
\* room's base price, and its hourly rate for the duration.
CreateEventCost(d) ==
  ( IF Truthy(d.estimated_cost) THEN d.estimated_cost ELSE 0 )
  + RoomById(d.room_id).base_price
  + RoomById(d.room_id).hourly_rate * ( d.end_time - d.start_time )

InvoicesOf(invs, eventId) == { i \in invs : i.event_id = eventId }

\* C20: a successful create leaves exactly one invoice for the new event when
\* the cost createEvent computes is above 0 and none when it is 0, and after
\* every create, update and delete no event has more than one invoice.
C20_OneInvoicePerEvent ==
  [][ /\ \A d \in InvoiceCreateInputs :
           HandlesCreate(d) /\ last'.code = 201
           => Cardinality(InvoicesOf(invoices', last'.event_id))
                = IF CreateEventCost(d) > 0 THEN 1 ELSE 0
      /\ \A e \in events' : Cardinality(InvoicesOf(invoices', e.event_id)) <= 1 ]_vars

\* A second invoice was asked for an event that has one, after events with
\* and without an invoice were created.
C20_Witness ==
  /\ last.op = "createInvoice"
  /\ last.code = 400
  /\ Cardinality(InvoicesOf(invoices, last.event_id)) = 1
  /\ \E e \in events : InvoicesOf(invoices, e.event_id) = { } /\ e.estimated_cost = 0

\* C21: every event service row that references a variation references the
\* service that variation belongs to.
C21_VariationBelongsToBookedService ==
  \A i \in 1 .. Len(eventServices) :
    eventServices[i].variation_id # Null
    => VariationById(eventServices[i].variation_id).service_id = eventServices[i].service_id

\* The step is PATCH /events/:id/toggle-status on event eventId.
HandlesToggle(eventId) ==
  /\ last'.op = "toggleEventStatus"
  /\ last' = toggleEventStatus(CurDb, eventId).resp
  /\ Commit(toggleEventStatus(CurDb, eventId).db)

\* C22: a toggle step moves an event only from PENDING to CONFIRMED or from
\* CONFIRMED to PENDING; an event that is IN_PROGRESS, COMPLETED, CANCELLED
\* or RESCHEDULED keeps its status across the step.
C22_ToggleOnlyBetweenPendingAndConfirmed ==
  [][ \A eventId \in 1 .. nextEventId :
        HandlesToggle(eventId)
        => \A e \in events :
             LET after == EventById(events', e.event_id).status
             IN  after # e.status
                 => << e.status, after >> \in { << "PENDING", "CONFIRMED" >>,
                                                << "CONFIRMED", "PENDING" >> } ]_vars

\* The update u moves event e to a new window that overlaps the window e
\* has now, keeps the room, and no other booked event of the room overlaps
\* the new window.
OverlapsOnlyOwnWindow(e, u) ==
  /\ u = [ NoUpdate EXCEPT !.start_time = u.start_time, !.end_time = u.end_time ]
  /\ Given(u.start_time) /\ Given(u.end_time) /\ u.start_time < u.end_time
  /\ WindowsOverlap(e.start_time, e.end_time, u.start_time, u.end_time)
  /\ \A o \in events :
       ( o.event_id # e.event_id /\ o.room_id = e.room_id /\ Booked(o) )
       => ~WindowsOverlap(o.start_time, o.end_time, u.start_time, u.end_time)

\* C23: an update of a CONFIRMED event to a window that overlaps only the
\* event's own stored window, on an available room with no other booking in
\* that window, succeeds and stores the new window.
C23_UpdateExcludesOwnBooking ==
  [][ \A e \in events, u \in BookingUpdateInputs :
        ( /\ e.status = "CONFIRMED"
          /\ RoomById(e.room_id).is_active
          /\ RoomById(e.room_id).status = "AVAILABLE"
          /\ OverlapsOnlyOwnWindow(e, u)
          /\ HandlesUpdate(e.event_id, u) )
        => /\ last'.code = 200
           /\ EventById(events', e.event_id).start_time = u.start_time
           /\ EventById(events', e.event_id).end_time = u.end_time ]_vars

\* The step is GET /rooms/:id/availability with these parameters.
HandlesCheckRoom(id, start_time, end_time, duration_hours) ==
  /\ last'.op = "checkRoomAvailability"
  /\ last' = checkRoomAvailabilityController(CurDb, id, start_time, end_time,
                                             duration_hours)
  /\ Commit(CurDb)

\* The step is POST /event-services/check-availability with this body.
HandlesCheckVariation(variation_id, scheduled_time, duration_hours) ==
  /\ last'.op = "checkVariationAvailability"
  /\ last' = checkVariationAvailabilityController(variation_id, scheduled_time,
                                                  duration_hours)
  /\ Commit(CurDb)

\* The request has a duration that is zero or negative, or an instant that
\* is not a date.
BadDurationOrDate(start, end, duration_hours) ==
  \/ ( duration_hours # Null /\ duration_hours <= 0 )
  \/ start = InvalidDate
  \/ end = InvalidDate

\* C24: a room or variation availability check whose duration is <= 0 or
\* whose start or end instant is not a date is answered with an error and
\* never with "available".
C24_AvailabilityRejectsBadDurationOrDate ==
  [][ /\ \A id \in RoomIdParams, start_time \in DateParams, end_time \in DateParams,
            duration_hours \in DurationParams :
           ( /\ BadDurationOrDate(start_time, end_time, duration_hours)
             /\ HandlesCheckRoom(id, start_time, end_time, duration_hours) )
           => ( last'.code = 400 /\ ~last'.isAvailable )
      /\ \A variation_id \in VariationIdParams, scheduled_time \in DateParams,
            duration_hours \in DurationParams :
           ( /\ BadDurationOrDate(scheduled_time, scheduled_time, duration_hours)
             /\ HandlesCheckVariation(variation_id, scheduled_time, duration_hours) )
           => ( last'.code = 400 /\ ~last'.isAvailable ) ]_vars

\* The room can be booked for [start, end): it exists, is active and
\* AVAILABLE, and no booked event of the room intersects the window.
RoomIsFree(id, start, end) ==
  /\ RoomById(id).room_id # Null
  /\ RoomById(id).is_active
  /\ RoomById(id).status = "AVAILABLE"
  /\ \A e \in events :
       ( e.room_id = id /\ Booked(e) )
       => ~WindowsOverlap(e.start_time, e.end_time, start, end)

\* C25: for a window start < end, checkRoomAvailability reports available
\* exactly when the room exists, is active, is AVAILABLE and has no
\* CONFIRMED or IN_PROGRESS event intersecting the window.
C25_AvailableIffRoomFree ==
  [][ \A id \in RoomIdParams, w \in Windows, duration_hours \in DurationParams :
        HandlesCheckRoom(id, w[1], w[2], duration_hours)
        => ( last'.isAvailable <=> RoomIsFree(id, w[1], w[2]) ) ]_vars

\* The InvoiceDetail rows of invoice invoice_id.
DetailsOfInvoice(invoice_id) ==
  SelectSeq(invoiceDetails, LAMBDA row : row.invoice_id = invoice_id)

\* C26: after a successful create-event or update-event request, every
\* invoice of the request's event has a total_amount equal to the sum of the
\* subtotals of its InvoiceDetail rows.
C26_InvoiceTotalIsSumOfDetails ==
  ( /\ last.op \in { "createEvent", "updateEvent" }
    /\ last.code \in { 200, 201 } )
  => \A i \in InvoicesOf(invoices, last.event_id) :
       SumSubtotals(DetailsOfInvoice(i.invoice_id)) = i.total_amount

\* C27: an update-event request of a caller who is not an admin leaves the
\* stored status of every event as it was.
C27_NonAdminUpdateKeepsStatus ==
  [][ \A eventId \in 1 .. MaxEvents, u \in OwnerUpdateInputs, user \in Users, now \in Nows :
        ( user.role # "ADMIN" /\ HandlesUpdateAs(eventId, u, user, now) )
        => \A e \in events : EventById(events', e.event_id).status = e.status ]_vars

\* The step is PUT /payments/:id by caller with this body.
HandlesUpdatePayment(caller, paymentId, body) ==
  /\ last'.op = "updatePayment"
  /\ last' = updatePaymentController(CurDb, caller, paymentId, body).resp
  /\ Commit(updatePaymentController(CurDb, caller, paymentId, body).db)

\* The step is DELETE /payments/:id by caller.
HandlesDeletePayment(caller, paymentId) ==
  /\ last'.op = "deletePayment"
  /\ last' = deletePaymentController(CurDb, caller, paymentId).resp
  /\ Commit(deletePaymentController(CurDb, caller, paymentId).db)

\* C28: a payment update or delete answered with 403 leaves the payments and
\* the invoices as they were, and a delete by the payment's owner that
\* removes the payment is answered with 200.
C28_UnauthorizedPaymentRequestChangesNothing ==
  [][ \A caller \in Accounts, paymentId \in 1 .. MaxPayments :
        /\ \A body \in PaymentOwnerUpdates :
             ( HandlesUpdatePayment(caller, paymentId, body) /\ last'.code = 403 )
             => ( payments' = payments /\ invoices' = invoices )
        /\ ( HandlesDeletePayment(caller, paymentId) /\ last'.code = 403 )
           => ( payments' = payments /\ invoices' = invoices )
        /\ ( /\ HandlesDeletePayment(caller, paymentId)
             /\ PaymentById(payments, paymentId).payment_id # Null
             /\ PaymentById(payments, paymentId).account_id = caller
             /\ PaymentById(payments', paymentId).payment_id = Null )
           => last'.code = 200 ]_vars

\* C29: a finished create-event request whose room no other stored event
\* uses has been answered with 201, whenever the other requests ran: it did
\* not fail on the unique invoice_number constraint.
C29_ConcurrentCreatesBothSucceed ==
  \A i \in 1 .. MaxRequests :
    ( /\ reqs[i].kind = "createEvent"
      /\ reqs[i].pc = "done"
      /\ reqs[i].d \in InvoiceNumberCreateInputs
      /\ \A e \in events :
           e.room_id = reqs[i].d.room_id => e.event_id = reqs[i].resp.event_id )
    => reqs[i].resp.code = 201

\* The step is a request of clientIp with this token through the middleware.
HandlesRateLimited(clientIp, token) ==
  /\ last'.op = "validateTokenWithRateLimit"
  /\ last' = validateTokenWithRateLimit(attempts, clock, clientIp, token).resp
  /\ attempts' = validateTokenWithRateLimit(attempts, clock, clientIp, token).attempts

\* clientIp has made maxAttempts failed attempts and its window is still open.
RateLimited(clientIp) ==
  /\ attempts[clientIp].present
  /\ attempts[clientIp].count >= maxAttempts
  /\ clock - attempts[clientIp].firstAttempt <= windowMs

\* C30: once a client IP has made maxAttempts failed attempts within windowMs,
\* a further request of that IP inside the window does not reach the next
\* handler, whatever token it carries.
C30_RateLimitedIpIsRejected ==
  [][ \A clientIp \in ClientIps, token \in Tokens :
        ( RateLimited(clientIp) /\ HandlesRateLimited(clientIp, token) )
        => ~ last'.called ]_vars

====
